---- MODULE Spec2Model ----
(***************************************************************************)
(* Jackify: the compatibility-layer integration engine.                    *)
(*                                                                         *)
(* The launcher's store files live in a file system `fs`; the operations   *)
(* of VDFHandler (backend/handlers/vdf_handler.py) and NativeSteamService  *)
(* (backend/services/native_steam_service.py) are the actions.  Every      *)
(* operation is a pure operator from the file system (and its inputs) to   *)
(* an outcome record [fs, ret, wopen]; the action of the same name applies *)
(* it.                                                                     *)
(*                                                                         *)
(* Strings the code inspects are sequences of tokens: a file name is the   *)
(* sequence of its pieces (<<"shortcuts", ".vdf">>), a dictionary key or a *)
(* decimal number the sequence of its characters, the text of config.vdf   *)
(* the sequence of its bytes, a run of letters being one token.            *)
(***************************************************************************)
EXTENDS Integers, Sequences, FiniteSets, TLC

\* ------------------------------------------------------------------ bounds

\* operations in one run of Spec (every operation of the engine)
MaxOps == 2
\* operations in one run of SpecCodec, SpecStore, SpecCompat
MaxCodecOps == 2
MaxStoreOps == 3
MaxCompatOps == 2
\* operations in one run of SpecIni
MaxIniOps == 2
\* operations in one run of SpecProton
MaxProtonOps == 1
\* calls of cancel in one run of SpecCancel
MaxCancels == 2
\* calls of get_proton_version and get_proton_paths in one run of SpecPaths
MaxPathsOps == 1
\* rewrites of ModOrganizer.ini in one run of SpecAnchor
MaxAnchorOps == 1
\* bytes the process writes in one run of SpecThread
MaxOutput == 4
\* bytes the process writes, and calls of InstallationThread.cancel from the
\* window, in one run of SpecRun
MaxRunOutput == 2
MaxRequests == 2
\* samples the monitor takes in one run of SpecMonitor
MaxSamples == 4
\* seconds the clock may advance
MaxTime == 1
\* identifier draws besides the two ends of the range
ExtraIds == 0

\* ------------------------------------------------------------ sequences

Last(s) == s[Len(s)]

Front(s) == SubSeq(s, 1, Len(s) - 1)

Range(s) == {s[i] : i \in 1..Len(s)}

\* Python's `needle in hay` on strings: a contiguous occurrence.
Contains(hay, needle) ==
    \E i \in 0..(Len(hay) - Len(needle)) :
        SubSeq(hay, i + 1, i + Len(needle)) = needle

\* str.find(needle, start), 0-based as in Python; -1 when absent.
Find(hay, needle, start) ==
    LET hits == {i \in start..(Len(hay) - Len(needle)) :
                    SubSeq(hay, i + 1, i + Len(needle)) = needle}
    IN IF hits = {} THEN -1 ELSE CHOOSE i \in hits : \A j \in hits : i <= j

\* str.replace(tok, ''), on a token sequence.
Remove(s, tok) == SelectSeq(s, LAMBDA x : x # tok)

\* ------------------------------------------------------- decimal strings

DigitChars == <<"0", "1", "2", "3", "4", "5", "6", "7", "8", "9">>

DigitSet == Range(DigitChars)

DigitVal(c) == (CHOOSE i \in 1..10 : DigitChars[i] = c) - 1

\* str(n) for n >= 0
RECURSIVE StrOf(_)
StrOf(n) ==
    IF n < 10 THEN <<DigitChars[n + 1]>>
    ELSE StrOf(n \div 10) \o <<DigitChars[(n % 10) + 1]>>

\* str.isdigit()
IsDigit(k) == k # <<>> /\ \A i \in 1..Len(k) : k[i] \in DigitSet

\* int(k) for a digit string
RECURSIVE IntOf(_)
IntOf(k) ==
    IF k = <<>> THEN 0 ELSE IntOf(Front(k)) * 10 + DigitVal(Last(k))

\* ---------------------------------------------------------------- paths
\* A path is [dirs, name]: the directory components of an absolute path and
\* the file name as its pieces.

Path(dirs, name) == [dirs |-> dirs, name |-> name]

\* os.path.basename
basename(p) == p.name

\* os.path.normpath, for the shapes used here: "." components are dropped.
RECURSIVE DropDots(_)
DropDots(ds) ==
    IF ds = <<>> THEN <<>>
    ELSE IF Head(ds) = "." THEN DropDots(Tail(ds))
    ELSE <<Head(ds)>> \o DropDots(Tail(ds))

normpath(p) == Path(DropDots(p.dirs), p.name)

\* f"{path}<suffix>": text appended to the file name
Append2(p, toks) == Path(p.dirs, p.name \o toks)

\* Path.with_suffix: the last piece of the name (its suffix) is replaced
with_suffix(p, toks) == Path(p.dirs, Front(p.name) \o toks)

ShortcutsName == <<"shortcuts", ".vdf">>

PROTECTED_VDF_FILES ==
    { <<"libraryfolders", ".vdf">>, <<"config", ".vdf">>,
      <<"loginusers", ".vdf">>, <<"registry", ".vdf">>,
      <<"localconfig", ".vdf">>, <<"remotecache", ".vdf">>,
      <<"sharedconfig", ".vdf">>, <<"appinfo", ".vdf">>,
      <<"packageinfo", ".vdf">>, <<"appmanifest_", "*", ".acf">> }

CRITICAL_STEAM_DIRS ==
    { "appcache", "controller_base", "config", "logs", "package", "public",
      "resource", "steam", "steamapps", "tenfoot" }

\* f"/{dir_name}/" in file_path: dir_name is a directory component
InCriticalDir(p) == \E d \in CRITICAL_STEAM_DIRS : d \in Range(p.dirs)

\* ---------------------------------------------------------- dictionaries
\* A Python dict keeps insertion order: a sequence of [key, val].

DKeys(d) == [i \in 1..Len(d) |-> d[i].key]

DHas(d, k) == \E i \in 1..Len(d) : d[i].key = k

DIndex(d, k) == CHOOSE i \in 1..Len(d) : d[i].key = k

\* d.get(k, default)
DGet(d, k, default) == IF DHas(d, k) THEN d[DIndex(d, k)].val ELSE default

\* d[k] = v
DSet(d, k, v) ==
    IF DHas(d, k) THEN [d EXCEPT ![DIndex(d, k)].val = v]
    ELSE Append(d, [key |-> k, val |-> v])

\* del d[k]
DDel(d, k) ==
    LET i == DIndex(d, k)
    IN SubSeq(d, 1, i - 1) \o SubSeq(d, i + 1, Len(d))

\* ----------------------------------------------------------- file system
\* fs maps each existing path to [content, mtime].  A content is
\*   kind "bin": the bytes vdf.binary_dump writes for `tree`,
\*   kind "txt": the text vdf.dump writes for `tree`,
\*   kind "raw": any other bytes, given in `bytes` (<<>>: an empty file).

BinContent(t) == [kind |-> "bin", tree |-> t, bytes |-> <<>>]

TxtContent(t) == [kind |-> "txt", tree |-> t, bytes |-> <<>>]

RawContent(b) == [kind |-> "raw", tree |-> <<>>, bytes |-> b]

File(c, t) == [content |-> c, mtime |-> t]

exists(f, p) == p \in DOMAIN f

\* shutil.copy2(src, dst): content and times
copy2(f, src, dst) == (dst :> f[src]) @@ f

\* open(p, 'w').write(c) at time t
WriteFile(f, p, c, t) == (p :> File(c, t)) @@ f

\* vdf.binary_load / vdf.binary_loads: the tree of a binary store, the empty
\* tree of an empty stream, an error for any other bytes.
binary_loads(c) ==
    IF c.kind = "bin" THEN [ok |-> TRUE, tree |-> c.tree]
    ELSE IF c.kind = "raw" /\ c.bytes = <<>> THEN [ok |-> TRUE, tree |-> <<>>]
    ELSE [ok |-> FALSE, tree |-> <<>>]

\* Whether the bytes of a text store decode (utf-8, strict) and parse: no
\* invalid byte, and braces that balance.
Depth(b) ==
    Cardinality({i \in 1..Len(b) : b[i] = "{"}) - Cardinality({i \in 1..Len(b) : b[i] = "}"})

TextParses(b) ==
    /\ "\\xff" \notin Range(b)
    /\ Depth(b) = 0
    /\ \A i \in 1..Len(b) : Depth(SubSeq(b, 1, i)) >= 0

\* vdf.load: the tree of a text store.  The tree of text the engine did not
\* write is kept opaque (one key holding the text).
text_load(c) ==
    IF c.kind = "txt" THEN [ok |-> TRUE, tree |-> c.tree]
    ELSE IF c.kind = "raw" /\ c.bytes = <<>> THEN [ok |-> TRUE, tree |-> <<>>]
    ELSE IF c.kind = "raw" /\ TextParses(c.bytes)
        THEN [ok |-> TRUE, tree |-> <<[key |-> <<"#text">>, val |-> c.bytes]>>]
    ELSE [ok |-> FALSE, tree |-> <<>>]

\* ------------------------------------------------------------- VDFHandler

\* What an operation leaves behind: the file system, the value returned
\* (or the exception raised) and the paths it opened for writing.
Outcome(f, r, w) == [fs |-> f, ret |-> r, wopen |-> w]

RetTrue == [kind |-> "True"]

RetFalse == [kind |-> "False"]

RetNone == [kind |-> "None"]

RetTree(t) == [kind |-> "tree", tree |-> t]

RetValueError == [kind |-> "ValueError"]

\* is_protected_file without its exception for shortcuts.vdf
is_protected_file_no_exception(p) ==
    LET file_name == basename(p)
    IN IF file_name \in PROTECTED_VDF_FILES THEN TRUE
       ELSE IF \E pattern \in PROTECTED_VDF_FILES :
                  "*" \in Range(pattern) /\ Contains(file_name, Remove(pattern, "*"))
            THEN TRUE
       ELSE InCriticalDir(p)

\* VDFHandler.is_protected_file(file_path)
is_protected_file(p) ==
    LET file_name == basename(p)
    IN IF file_name = ShortcutsName THEN FALSE
       ELSE IF file_name \in PROTECTED_VDF_FILES THEN TRUE
       ELSE IF \E pattern \in PROTECTED_VDF_FILES :
                  "*" \in Range(pattern) /\ Contains(file_name, Remove(pattern, "*"))
            THEN TRUE
       ELSE InCriticalDir(p)

\* VDFHandler.load(file_path, binary).  io.copies: how many of the call's
\* copy2 calls succeed.
load(f, file_path, binary, io) ==
    LET backup_path == Append2(file_path, <<".bak">>)
        f1 == IF /\ is_protected_file(file_path)
                 /\ ~exists(f, backup_path)
                 /\ exists(f, file_path)
                 /\ io.copies >= 1
              THEN copy2(f, file_path, backup_path)
              ELSE f
        r == IF ~exists(f, file_path) THEN [ok |-> FALSE, tree |-> <<>>]
             ELSE IF binary THEN binary_loads(f[file_path].content)
             ELSE text_load(f[file_path].content)
    IN Outcome(f1, IF r.ok THEN RetTree(r.tree) ELSE RetNone, {})

\* save without its second line of defense (the file-name check)
save_without_name_check(f, file_path, data, binary, io, now) ==
    LET p == normpath(file_path)
        backup_path == Append2(p, <<".">> \o StrOf(f[p].mtime) \o <<".bak">>)
        simple_backup == Append2(p, <<".bak">>)
        f1 == IF io.copies >= 1 THEN copy2(f, p, backup_path) ELSE f
        f2 == IF ~exists(f1, simple_backup) /\ io.copies >= 2
              THEN copy2(f1, p, simple_backup) ELSE f1
        backed == io.copies >= 2 \/ (io.copies = 1 /\ exists(f1, simple_backup))
        f3 == IF exists(f, p) THEN f2 ELSE f
        written == IF binary THEN RawContent(<<>>) ELSE TxtContent(data)
    IN IF is_protected_file(p) THEN Outcome(f, RetValueError, {})
       ELSE IF exists(f, p) /\ ~backed THEN Outcome(f1, RetFalse, {})
       ELSE IF ~io.write THEN Outcome(f3, RetFalse, {})
       ELSE Outcome(WriteFile(f3, p, written, now), RetTrue, {p})

\* VDFHandler.save(file_path, data, binary) at time `now`.  io.copies: how
\* many of the call's copy2 calls succeed; io.write: whether the target
\* opens for writing.  In binary mode the file is opened 'wb' and
\* vdf.binary_dumps(data, f) returns the bytes without writing them to f:
\* the file is left empty.
save(f, file_path, data, binary, io, now) ==
    LET p == normpath(file_path)
        file_name == basename(p)
        backup_path == Append2(p, <<".">> \o StrOf(f[p].mtime) \o <<".bak">>)
        simple_backup == Append2(p, <<".bak">>)
        f1 == IF io.copies >= 1 THEN copy2(f, p, backup_path) ELSE f
        f2 == IF ~exists(f1, simple_backup) /\ io.copies >= 2
              THEN copy2(f1, p, simple_backup) ELSE f1
        backed == io.copies >= 2 \/ (io.copies = 1 /\ exists(f1, simple_backup))
        f3 == IF exists(f, p) THEN f2 ELSE f
        written == IF binary THEN RawContent(<<>>) ELSE TxtContent(data)
    IN IF is_protected_file(p) THEN Outcome(f, RetValueError, {})
       ELSE IF file_name # ShortcutsName THEN Outcome(f, RetValueError, {})
       ELSE IF exists(f, p) /\ ~backed THEN Outcome(f1, RetFalse, {})
       ELSE IF ~io.write THEN Outcome(f3, RetFalse, {})
       ELSE Outcome(WriteFile(f3, p, written, now), RetTrue, {p})

\* The callbacks update_shortcuts is given: the tree unchanged, the tree with
\* a key added, or None.
UpdateFunctions == {"same", "touch", "none"}

ApplyUpdate(fn, t) ==
    IF fn = "same" THEN [ok |-> TRUE, tree |-> t]
    ELSE IF fn = "touch"
        THEN [ok |-> TRUE, tree |-> DSet(t, <<"touched">>, <<>>)]
    ELSE [ok |-> FALSE, tree |-> <<>>]

\* VDFHandler.update_shortcuts(shortcuts_path, update_function)
update_shortcuts(f, shortcuts_path, fn, io, now) ==
    LET l == load(f, shortcuts_path, TRUE, io)
        u == ApplyUpdate(fn, l.ret.tree)
        s == save(l.fs, shortcuts_path, u.tree, TRUE, io, now)
    IN IF basename(shortcuts_path) # ShortcutsName THEN Outcome(f, RetFalse, {})
       ELSE IF l.ret.kind = "None" \/ l.ret.tree = <<>> THEN Outcome(l.fs, RetFalse, {})
       ELSE IF ~u.ok THEN Outcome(l.fs, RetFalse, {})
       ELSE IF s.ret.kind = "ValueError" THEN Outcome(s.fs, RetFalse, {})
       ELSE s

\* ----------------------------------------------------- large identifiers
\* 2^32 and the unsigned identifiers exceed TLC's integers: a large
\* number is <<hi, lo>>, standing for hi * Base + lo with 0 <= lo < Base.

Base == 10^5

BigOfInt(n) == <<n \div Base, n % Base>>

BigAdd(a, b) ==
    LET lo == a[2] + b[2]
    IN <<a[1] + b[1] + (lo \div Base), lo % Base>>

\* 2**32 = 4294967296
TwoPow32 == <<42949, 67296>>

\* str(n) of a large n >= 0: the low part is padded to five digits
PadLow(lo) ==
    LET d == StrOf(lo)
    IN [i \in 1..(5 - Len(d)) |-> "0"] \o d

StrOfBig(a) == IF a[1] = 0 THEN StrOf(a[2]) ELSE StrOf(a[1]) \o PadLow(a[2])

\* ----------------------------------------------------- NativeSteamService

\* str(path): "/" before every component
RECURSIVE DirStr(_)
DirStr(ds) ==
    IF ds = <<>> THEN <<>> ELSE DirStr(Front(ds)) \o <<"/", Last(ds)>>

PathStr(p) == DirStr(p.dirs) \o <<"/">> \o p.name

\* Path.home() / ".steam" / "steam"
steam_path == <<"home", ".steam", "steam">>

userdata_path == steam_path \o <<"userdata">>

\* The user directories under userdata: those a file lies in.
UserDirs(f) ==
    {p.dirs[Len(userdata_path) + 1] : p \in
        {q \in DOMAIN f : /\ Len(q.dirs) > Len(userdata_path)
                          /\ SubSeq(q.dirs, 1, Len(userdata_path)) = userdata_path}}

\* find_steam_user: the digit-named directories other than "0"; the first
\* that iterdir lists is used, any of them.
ValidUsers(f) == {u \in UserDirs(f) : IsDigit(<<u>>) /\ u # "0"}

UserConfigPath(u) == userdata_path \o <<u, "config">>

\* None, for a path or an identifier
None == <<>>

\* find_steam_user as get_shortcuts_vdf_path uses it: the user config path
\* once found is kept; `pick` is the directory iterdir lists first.
find_steam_user(f, ucp, pick) ==
    IF ucp # None THEN ucp
    ELSE IF pick \in ValidUsers(f) THEN UserConfigPath(pick)
    ELSE None

\* get_shortcuts_vdf_path, given the user config path (None: no user found)
get_shortcuts_vdf_path(ucp) == Path(ucp, ShortcutsName)

EmptyShortcuts == <<[key |-> <<"shortcuts">>, val |-> <<>>]>>

\* read_shortcuts_vdf
read_shortcuts_vdf(f, ucp) ==
    LET shortcuts_path == get_shortcuts_vdf_path(ucp)
    IN IF ucp = None THEN EmptyShortcuts
       ELSE IF exists(f, shortcuts_path)
           THEN LET r == binary_loads(f[shortcuts_path].content)
                IN IF r.ok THEN r.tree ELSE EmptyShortcuts
       ELSE EmptyShortcuts

\* write_shortcuts_vdf without its backup step
write_shortcuts_vdf_no_backup(f, ucp, data, io, now) ==
    LET shortcuts_path == get_shortcuts_vdf_path(ucp)
    IN IF ucp = None THEN Outcome(f, RetFalse, {})
       ELSE IF ~io.write THEN Outcome(f, RetFalse, {})
       ELSE Outcome(WriteFile(f, shortcuts_path, BinContent(data), now),
                    RetTrue, {shortcuts_path})

\* write_shortcuts_vdf(data) at time `now`
write_shortcuts_vdf(f, ucp, data, io, now) ==
    LET shortcuts_path == get_shortcuts_vdf_path(ucp)
        backup_path == with_suffix(shortcuts_path, <<".vdf", ".backup_">> \o StrOf(now))
        f1 == IF exists(f, shortcuts_path) THEN copy2(f, shortcuts_path, backup_path) ELSE f
    IN IF ucp = None THEN Outcome(f, RetFalse, {})
       ELSE IF exists(f, shortcuts_path) /\ io.copies = 0 THEN Outcome(f, RetFalse, {})
       ELSE IF ~io.write THEN Outcome(f1, RetFalse, {})
       ELSE Outcome(WriteFile(f1, shortcuts_path, BinContent(data), now),
                    RetTrue, {shortcuts_path})

ID_MIN == 100000000

ID_MAX == 999999999

\* generate_app_id with the unsigned identifier made from a draw of its own
generate_app_id_two_draws(draw) ==
    [signed |-> -draw,
     unsigned |-> BigAdd(BigOfInt(-(ID_MIN + ID_MAX - draw)), TwoPow32)]

\* generate_app_id, given the value random.randint drew
generate_app_id(draw) ==
    LET signed_app_id == -draw
        unsigned_app_id == BigAdd(BigOfInt(signed_app_id), TwoPow32)
    IN [signed |-> signed_app_id, unsigned |-> unsigned_app_id]

RetPair(ok, id) == [kind |-> "pair", ok |-> ok, app_id |-> id]

\* Path(exe_path).parent / "SteamIcons" and the icon create_shortcut finds
\* there: grid-tall.png, else a *.png file (the first glob lists), else ''.
icon_path(f, exe_path) ==
    LET steamicons_dir == Append(exe_path.dirs, "SteamIcons")
        grid_tall_icon == Path(steamicons_dir, <<"grid-tall", ".png">>)
        png_files == {q \in DOMAIN f : q.dirs = steamicons_dir /\ Last(q.name) = ".png"}
    IN IF exists(f, grid_tall_icon) THEN PathStr(grid_tall_icon)
       ELSE IF png_files # {} THEN PathStr(CHOOSE q \in png_files : TRUE)
       ELSE <<>>

\* enumerate(tags): the dict {str(i): tag}
TagsDict(tags) == [i \in 1..Len(tags) |-> [key |-> StrOf(i - 1), val |-> tags[i]]]

Max(S, default) == IF S = {} THEN default ELSE CHOOSE x \in S : \A y \in S : y <= x

\* next_index without the + 1: the highest index in use
next_index_highest_used(shortcuts) ==
    LET indices == {IntOf(shortcuts[i].key) : i \in
                        {j \in 1..Len(shortcuts) : IsDigit(shortcuts[j].key)}}
    IN Max(indices, 0)

\* next_index as the lowest index not in use
next_index_lowest_free(shortcuts) ==
    LET indices == {IntOf(shortcuts[i].key) : i \in
                        {j \in 1..Len(shortcuts) : IsDigit(shortcuts[j].key)}}
    IN CHOOSE n \in 0..Len(shortcuts) :
           n \notin indices /\ \A m \in 0..(n - 1) : m \in indices

\* next_index = max(indices, default=-1) + 1
next_index(shortcuts) ==
    LET indices == {IntOf(shortcuts[i].key) : i \in
                        {j \in 1..Len(shortcuts) : IsDigit(shortcuts[j].key)}}
    IN Max(indices, -1) + 1

shortcut_entry(f, a, signed_app_id) ==
    [appid |-> signed_app_id,
     AppName |-> a.app_name,
     Exe |-> <<"\"">> \o PathStr(a.exe_path) \o <<"\"">>,
     StartDir |-> <<"\"">> \o (IF a.start_dir = None THEN DirStr(a.exe_path.dirs)
                                ELSE a.start_dir) \o <<"\"">>,
     icon |-> icon_path(f, a.exe_path),
     ShortcutPath |-> <<>>,
     LaunchOptions |-> a.launch_options,
     IsHidden |-> 0,
     AllowDesktopConfig |-> 1,
     AllowOverlay |-> 1,
     OpenVR |-> 0,
     Devkit |-> 0,
     DevkitGameID |-> <<>>,
     DevkitOverrideAppID |-> 0,
     LastPlayTime |-> 0,
     IsInstalled |-> 1,
     FlatpakAppID |-> <<>>,
     tags |-> TagsDict(IF a.tags = None THEN <<"Jackify">> ELSE a.tags)]

\* create_shortcut(app_name, exe_path, start_dir, launch_options, tags), the
\* arguments in `a`, with the identifier drawn being `draw`
create_shortcut(f, ucp, a, draw, io, now) ==
    LET data == read_shortcuts_vdf(f, ucp)
        shortcuts == DGet(data, <<"shortcuts">>, <<>>)
        id == generate_app_id(draw)
        idx == next_index(shortcuts)
        entry == shortcut_entry(f, a, id.signed)
        shortcuts2 == DSet(shortcuts, StrOf(idx), entry)
        data2 == DSet(data, <<"shortcuts">>, shortcuts2)
        w == write_shortcuts_vdf(f, ucp, data2, io, now)
    IN IF w.ret.kind = "True" THEN Outcome(w.fs, RetPair(TRUE, id.unsigned), w.wopen)
       ELSE Outcome(w.fs, RetPair(FALSE, None), w.wopen)

\* list_shortcuts: the dict {index: AppName}
list_shortcuts(f, ucp) ==
    LET shortcuts == DGet(read_shortcuts_vdf(f, ucp), <<"shortcuts">>, <<>>)
    IN [i \in 1..Len(shortcuts) |->
           [key |-> shortcuts[i].key,
            val |-> IF "AppName" \in DOMAIN shortcuts[i].val
                    THEN shortcuts[i].val.AppName ELSE "Unknown"]]

\* remove_shortcut removing every entry of that name
remove_shortcut_all_named(f, ucp, app_name, io, now) ==
    LET data == read_shortcuts_vdf(f, ucp)
        shortcuts == DGet(data, <<"shortcuts">>, <<>>)
        keep == SelectSeq(shortcuts, LAMBDA e :
                    ~("AppName" \in DOMAIN e.val /\ e.val.AppName = app_name))
        data2 == DSet(data, <<"shortcuts">>, keep)
    IN IF keep = shortcuts THEN Outcome(f, RetFalse, {})
       ELSE write_shortcuts_vdf(f, ucp, data2, io, now)

\* remove_shortcut(app_name)
remove_shortcut(f, ucp, app_name, io, now) ==
    LET data == read_shortcuts_vdf(f, ucp)
        shortcuts == DGet(data, <<"shortcuts">>, <<>>)
        hits == {i \in 1..Len(shortcuts) :
                    /\ "AppName" \in DOMAIN shortcuts[i].val
                    /\ shortcuts[i].val.AppName = app_name}
        to_remove == shortcuts[CHOOSE i \in hits : \A j \in hits : i <= j].key
        data2 == DSet(data, <<"shortcuts">>, DDel(shortcuts, to_remove))
    IN IF hits = {} THEN Outcome(f, RetFalse, {})
       ELSE write_shortcuts_vdf(f, ucp, data2, io, now)

\* ------------------------------------------------- the mapping file's text

\* open(path, 'r', encoding='utf-8', errors='ignore').read(): bytes that do
\* not decode are dropped, "\r\n" and "\r" are read as "\n".
universal_newlines(t) ==
    LET kept == SelectSeq([i \in 1..Len(t) |-> i],
                          LAMBDA i : ~(t[i] = "\r" /\ i < Len(t) /\ t[i + 1] = "\n"))
    IN [k \in 1..Len(kept) |-> IF t[kept[k]] = "\r" THEN "\n" ELSE t[kept[k]]]

decode_ignore(b) == universal_newlines(Remove(b, "\\xff"))

\* A run of n tabs, one token
Tabs(n) == <<(<<"\t", "\t\t", "\t\t\t", "\t\t\t\t", "\t\t\t\t\t", "\t\t\t\t\t\t">>)[n]>>

Quoted(toks) == <<"\"">> \o toks \o <<"\"">>

\* The loop of set_proton_version that counts braces from pos, starting at
\* brace_count > 0: it stops at the first "}" that brings the count to 0.
\* The position (from 0) of that brace, or -1 when the text ends first.
MatchBrace(text, pos, brace_count) ==
    LET closing == {p \in pos..(Len(text) - 1) :
                       /\ text[p + 1] = "}"
                       /\ brace_count + Depth(SubSeq(text, pos + 1, p + 1)) = 0}
    IN IF closing = {} THEN -1
       ELSE CHOOSE p \in closing : \A q \in closing : p <= q

new_entry(app_id, proton_version) ==
    Tabs(5) \o Quoted(StrOfBig(app_id)) \o <<"\n">>
    \o Tabs(5) \o <<"{", "\n">>
    \o Tabs(6) \o Quoted(<<"name">>) \o Tabs(2) \o Quoted(<<proton_version>>) \o <<"\n">>
    \o Tabs(6) \o Quoted(<<"config">>) \o Tabs(2) \o Quoted(<<>>) \o <<"\n">>
    \o Tabs(6) \o Quoted(<<"priority">>) \o Tabs(2) \o Quoted(<<"2", "5", "0">>) \o <<"\n">>
    \o Tabs(5) \o <<"}", "\n">>

\* config_text[:compat_end] + new_entry + config_text[compat_end:]
InsertAt(text, compat_end, entry) ==
    SubSeq(text, 1, compat_end) \o entry \o SubSeq(text, compat_end + 1, Len(text))

config_path == Path(steam_path \o <<"config">>, <<"config", ".vdf">>)

\* set_proton_version, were it to put the entry at the end of a text whose
\* section never closes
set_proton_version_appends(f, app_id, proton_version, io, now) ==
    LET backup_path == with_suffix(config_path, <<".vdf", ".backup_">> \o StrOf(now))
        f1 == copy2(f, config_path, backup_path)
        c == f[config_path].content
        config_text == IF c.kind = "raw" THEN decode_ignore(c.bytes) ELSE <<>>
        compat_start == Find(config_text, Quoted(<<"CompatToolMapping">>), 0)
        brace_start == Find(config_text, <<"{">>, compat_start)
        compat_end == MatchBrace(config_text, brace_start + 1, 1)
        new_config_text == InsertAt(config_text,
                                    IF compat_end = -1 THEN Len(config_text) ELSE compat_end,
                                    new_entry(app_id, proton_version))
    IN IF ~exists(f, config_path) THEN Outcome(f, RetFalse, {})
       ELSE IF io.copies = 0 THEN Outcome(f, RetFalse, {})
       ELSE IF compat_start = -1 THEN Outcome(f1, RetFalse, {})
       ELSE IF brace_start = -1 THEN Outcome(f1, RetFalse, {})
       ELSE IF ~io.write THEN Outcome(f1, RetFalse, {})
       ELSE Outcome(WriteFile(f1, config_path, RawContent(new_config_text), now),
                    IF compat_end = -1 THEN RetFalse ELSE RetTrue, {config_path})

\* set_proton_version(app_id, proton_version) at time `now`
set_proton_version(f, app_id, proton_version, io, now) ==
    LET backup_path == with_suffix(config_path, <<".vdf", ".backup_">> \o StrOf(now))
        f1 == copy2(f, config_path, backup_path)
        c == f[config_path].content
        config_text == IF c.kind = "raw" THEN decode_ignore(c.bytes) ELSE <<>>
        compat_start == Find(config_text, Quoted(<<"CompatToolMapping">>), 0)
        brace_start == Find(config_text, <<"{">>, compat_start)
        compat_end == MatchBrace(config_text, brace_start + 1, 1)
        new_config_text == InsertAt(config_text, compat_end,
                                    new_entry(app_id, proton_version))
    IN IF ~exists(f, config_path) THEN Outcome(f, RetFalse, {})
       ELSE IF io.copies = 0 THEN Outcome(f, RetFalse, {})
       ELSE IF compat_start = -1 THEN Outcome(f1, RetFalse, {})
       ELSE IF brace_start = -1 THEN Outcome(f1, RetFalse, {})
       ELSE IF compat_end = -1 THEN Outcome(f1, RetFalse, {})
       ELSE IF ~io.write THEN Outcome(f1, RetFalse, {})
       ELSE Outcome(WriteFile(f1, config_path, RawContent(new_config_text), now),
                    RetTrue, {config_path})

\* The runtime create_shortcut_with_proton uses: the one given, else the one
\* detected, else "proton_experimental".
NoVersion == "<None>"

resolve_proton_version(proton_version, detected) ==
    IF proton_version # NoVersion THEN proton_version
    ELSE IF detected # NoVersion THEN detected
    ELSE "proton_experimental"

\* create_shortcut_with_proton returning no identifier when only the second
\* step failed
create_shortcut_with_proton_no_id(f, ucp, a, draw, proton_version, detected, io1, io2, now) ==
    LET version == resolve_proton_version(proton_version, detected)
        c == create_shortcut(f, ucp, a, draw, io1, now)
        p == set_proton_version(c.fs, c.ret.app_id, version, io2, now)
    IN IF ~c.ret.ok THEN Outcome(c.fs, RetPair(FALSE, None), c.wopen)
       ELSE IF p.ret.kind # "True"
           THEN Outcome(p.fs, RetPair(FALSE, None), c.wopen \cup p.wopen)
       ELSE Outcome(p.fs, RetPair(TRUE, c.ret.app_id), c.wopen \cup p.wopen)

\* create_shortcut_with_proton(..., proton_version); io1, io2: the file
\* operations of its two steps
create_shortcut_with_proton(f, ucp, a, draw, proton_version, detected, io1, io2, now) ==
    LET version == resolve_proton_version(proton_version, detected)
        c == create_shortcut(f, ucp, a, draw, io1, now)
        p == set_proton_version(c.fs, c.ret.app_id, version, io2, now)
    IN IF ~c.ret.ok THEN Outcome(c.fs, RetPair(FALSE, None), c.wopen)
       ELSE IF p.ret.kind # "True"
           THEN Outcome(p.fs, RetPair(FALSE, c.ret.app_id), c.wopen \cup p.wopen)
       ELSE Outcome(p.fs, RetPair(TRUE, c.ret.app_id), c.wopen \cup p.wopen)

\* ---------------------------------------------------- text of an ini file
\* The text of ModOrganizer.ini and the paths put into it are sequences of
\* tokens: "\\" (one backslash), "/", "=", " ", "\n", "\r" and "\\xff" (a
\* byte that is no utf-8) are tokens of their own, every other token is a
\* run of characters without any of these (a key, a directory or file name).

Indices(s) == [i \in 1..Len(s) |-> i]

Min(S) == CHOOSE x \in S : \A y \in S : x <= y

\* The concatenation of the sequences of a sequence
RECURSIVE Concat(_)
Concat(parts) ==
    IF parts = <<>> THEN <<>> ELSE Concat(Front(parts)) \o Last(parts)

\* str.split(sep, maxsplit) for a one-token separator; maxsplit -1: no limit
Split(s, sep, maxsplit) ==
    LET at == SelectSeq(Indices(s), LAMBDA i : s[i] = sep)
        n == IF maxsplit < 0 \/ maxsplit > Len(at) THEN Len(at) ELSE maxsplit
    IN [k \in 1..(n + 1) |->
           SubSeq(s, IF k = 1 THEN 1 ELSE at[k - 1] + 1,
                     IF k = n + 1 THEN Len(s) ELSE at[k] - 1)]

\* sep.join(parts)
Join(parts, sep) ==
    Concat([k \in 1..Len(parts) |-> IF k = 1 THEN parts[k] ELSE <<sep>> \o parts[k]])

\* str.split(word, 1) for a word of several tokens: the text before its first
\* occurrence and the text after it (word must occur)
SplitWord(s, word) ==
    LET i == Find(s, word, 0)
    IN <<SubSeq(s, 1, i), SubSeq(s, i + Len(word) + 1, Len(s))>>

\* str.replace(tok, repl) for a one-token tok
Replace(s, tok, repl) ==
    Concat([i \in 1..Len(s) |-> IF s[i] = tok THEN repl ELSE <<s[i]>>])

\* str.startswith
StartsWith(s, prefix) ==
    Len(s) >= Len(prefix) /\ SubSeq(s, 1, Len(prefix)) = prefix

Whitespace == {" ", "\n", "\r", "\t"}

\* str.strip()
strip(s) ==
    LET inked == {i \in 1..Len(s) : s[i] \notin Whitespace}
    IN IF inked = {} THEN <<>>
       ELSE SubSeq(s, Min(inked), Max(inked, 0))

\* str.lstrip()
lstrip(s) ==
    LET inked == {i \in 1..Len(s) : s[i] \notin Whitespace}
    IN IF inked = {} THEN <<>> ELSE SubSeq(s, Min(inked), Len(s))

\* f.readlines() of a text: the lines, each with the "\n" that ends it
readlines(text) ==
    LET ends == SelectSeq(Indices(text), LAMBDA i : text[i] = "\n")
        n == Len(ends)
        whole == [k \in 1..n |-> SubSeq(text, IF k = 1 THEN 1 ELSE ends[k - 1] + 1, ends[k])]
    IN IF n = 0 THEN (IF text = <<>> THEN <<>> ELSE <<text>>)
       ELSE IF ends[n] = Len(text) THEN whole
       ELSE Append(whole, SubSeq(text, ends[n] + 1, Len(text)))

\* The tokens of these texts that have `word` as a substring: `word in s`
\* holds when one of them is in s.
Within(word) ==
    CASE word = "mods" -> {"mods", "mymods"}
      [] word = "Stock Game" -> {"Stock Game", "Stock Game Folder"}
      [] OTHER -> {word}

In(word, s) == \E i \in 1..Len(s) : s[i] \in Within(word)

\* The tokens that begin with `word`
Beginning(word) ==
    CASE word = "Stock Game" -> {"Stock Game", "Stock Game Folder"}
      [] OTHER -> {word}

\* re.sub(r'.*/<word>', '/<word>', s) for s of one line: what precedes the
\* last "/<word>" of s is dropped; s as it is when there is none.
ReSubUpTo(s, word) ==
    LET hits == {i \in 1..(Len(s) - 1) :
                    /\ s[i] = "/"
                    /\ s[i + 1] \in Beginning(word)
                    /\ \A j \in 1..i : s[j] # "\n"}
    IN IF hits = {} THEN s
       ELSE SubSeq(s, Max(hits, 0), Len(s))

\* os.path.dirname
dirname(p) ==
    LET slashes == {i \in 1..Len(p) : p[i] = "/"}
        i == Max(slashes, 0)
        head == SubSeq(p, 1, i)
        kept == {j \in 1..i : head[j] # "/"}
    IN IF slashes = {} THEN <<>>
       ELSE IF kept = {} THEN head
       ELSE SubSeq(head, 1, Max(kept, 0))

\* ------------------------------------------------------------- WineUtils

SdcardPrefix == <<"/", "run", "/", "media", "/", "deck", "/">>

\* WineUtils._strip_sdcard_path(path)
strip_sdcard_path(path) ==
    LET parts == Split(path, "/", 5)
    IN IF StartsWith(path, SdcardPrefix) /\ Len(parts) >= 6
       THEN <<"/">> \o parts[6]
       ELSE path

\* A line names a script-extender loader
IsLoaderLine(line) == In("skse64_loader.exe", line) \/ In("f4se_loader.exe", line)

Doubled == <<"\\", "\\">>

RootSkyrim == <<"root", "/", "Skyrim Special Edition">>

\* `term in s` for the stock-folder names
HasTerm(term, s) ==
    IF term = "root/Skyrim Special Edition" THEN Contains(s, RootSkyrim) ELSE In(term, s)

\* any(term in s for term in ["Stock Game", "Game Root", ...])
InStock(s) ==
    \E term \in {"Stock Game", "Game Root", "STOCK GAME", "Stock Game Folder",
                 "Stock Folder", "Skyrim Stock", "root/Skyrim Special Edition"} :
        HasTerm(term, s)

\* The chain "if "Stock Game" in ...: dir_type = "stockgame" elif ..."
dir_type(s) ==
    IF HasTerm("Stock Game", s) THEN "stockgame"
    ELSE IF HasTerm("Game Root", s) THEN "gameroot"
    ELSE IF HasTerm("STOCK GAME", s) THEN "STOCKGAME"
    ELSE IF HasTerm("Stock Folder", s) THEN "stockfolder"
    ELSE IF HasTerm("Skyrim Stock", s) THEN "skyrimstock"
    ELSE IF HasTerm("Stock Game Folder", s) THEN "stockgamefolder"
    ELSE IF HasTerm("root/Skyrim Special Edition", s) THEN "rootskyrimse"
    ELSE "unknown"

\* The folder name the branch of a dir_type works with
StockWord(type) ==
    CASE type = "stockgame" -> "Stock Game"
      [] type = "gameroot" -> "Game Root"
      [] type = "STOCKGAME" -> "STOCK GAME"
      [] type = "stockfolder" -> "Stock Folder"
      [] type = "skyrimstock" -> "Skyrim Stock"
      [] type = "stockgamefolder" -> "Stock Game Folder"
      [] OTHER -> "Skyrim Special Edition"

\* path_end and bin_path_end of edit_binary_working_paths in the stock-folder
\* branch
edit_stock_ends(skse_loc, type) ==
    CASE type = "stockgamefolder" ->
            [path_end |-> ReSubUpTo(skse_loc, "Stock Game Folder"),
             bin_path_end |-> ReSubUpTo(skse_loc, "Stock Game Folder")]
      [] type = "rootskyrimse" ->
            [path_end |-> <<"/">> \o lstrip(skse_loc),
             bin_path_end |-> <<"/">> \o lstrip(skse_loc)]
      [] OTHER ->
            [path_end |-> ReSubUpTo(dirname(skse_loc), StockWord(type)),
             bin_path_end |-> ReSubUpTo(skse_loc, StockWord(type))]

\* The text before the first "steamapps" of a path: split('steamapps')[0]
BeforeSteamapps(path) ==
    LET at == {i \in 1..Len(path) : path[i] \in Within("steamapps")}
    IN IF at = {} THEN path ELSE SubSeq(path, 1, Min(at) - 1)

\* The kind of a loader's path: under mods, a stock-game folder, steamapps
path_kind(binary_path) ==
    IF In("mods", binary_path) THEN "mods"
    ELSE IF InStock(binary_path) THEN "stock"
    ELSE IF In("steamapps", binary_path) THEN "steamapps"
    ELSE "none"

\* The branch that handles a text: the chain's, and within the stock-folder
\* branch the dir_type
handler(s) == IF path_kind(s) = "stock" THEN dir_type(s) ELSE path_kind(s)

\* What edit_binary_working_paths makes of one loader line: whether it goes
\* on to rewrite (`go`), the two prefixes it looks for and the two lines it
\* puts in their place.
edit_entry(orig_line, a) ==
    LET kv == Split(orig_line, "=", 1)
        binary_num == kv[1]
        skse_loc == kv[2]
        drive_letter == IF a.modlist_sdcard THEN <<" ", "=", " ", "D:">>
                        ELSE <<" ", "=", " ", "Z:">>
        just_num == Split(binary_num, "\\", -1)[1]
        bin_path_start == Replace(strip(binary_num), "\\", Doubled)
        path_start == Replace(just_num \o <<"\\", "\\", "workingDirectory">>, "\\", Doubled)
        kind == path_kind(orig_line)
        drive == IF kind = "steamapps" /\ a.basegame_sdcard
                 THEN <<" ", "=", " ", "D:">> ELSE drive_letter
        path_middle ==
            IF kind = "steamapps"
            THEN (IF a.basegame_sdcard THEN strip_sdcard_path(a.steam_library)
                  ELSE BeforeSteamapps(a.steam_library))
            ELSE (IF a.modlist_sdcard THEN strip_sdcard_path(a.modlist_dir)
                  ELSE a.modlist_dir)
        path_end ==
            IF kind = "mods" THEN ReSubUpTo(Split(skse_loc, "/", -1)[1], "mods")
            ELSE IF kind = "stock" THEN edit_stock_ends(skse_loc, dir_type(orig_line)).path_end
            ELSE ReSubUpTo(dirname(skse_loc), "steamapps")
        bin_path_end ==
            IF kind = "mods" THEN ReSubUpTo(skse_loc, "mods")
            ELSE IF kind = "stock" THEN edit_stock_ends(skse_loc, dir_type(orig_line)).bin_path_end
            ELSE ReSubUpTo(skse_loc, "steamapps")
        full_bin_path == bin_path_start \o drive \o path_middle \o bin_path_end
        full_path == path_start \o drive \o path_middle \o path_end
    IN IF "=" \notin Range(orig_line) \/ kind = "none"
       THEN [go |-> FALSE, bin_path_start |-> <<>>, path_start |-> <<>>,
             full_bin_path |-> <<>>, new_path |-> <<>>]
       ELSE [go |-> TRUE, bin_path_start |-> bin_path_start, path_start |-> path_start,
             full_bin_path |-> full_bin_path,
             new_path |-> Replace(full_path, "/", Doubled)]

\* The loop "for i, line in enumerate(content)" of one entry
edit_apply(content, e) ==
    [i \in 1..Len(content) |->
        IF StartsWith(content[i], e.bin_path_start) THEN e.full_bin_path \o <<"\n">>
        ELSE IF StartsWith(content[i], e.path_start) THEN e.new_path \o <<"\n">>
        ELSE content[i]]

\* The loop over skse_lines
RECURSIVE edit_all(_, _, _)
edit_all(content, skse_lines, a) ==
    IF skse_lines = <<>> THEN content
    ELSE LET e == edit_entry(Head(skse_lines), a)
         IN edit_all(IF e.go THEN edit_apply(content, e) ELSE content,
                     Tail(skse_lines), a)

\* WineUtils.edit_binary_working_paths(modlist_ini, modlist_dir,
\* modlist_sdcard, steam_library, basegame_sdcard), the arguments in `a`
edit_binary_working_paths(f, a, io, now) ==
    LET c == f[a.modlist_ini].content
        content == readlines(decode_ignore(c.bytes))
        skse_lines == SelectSeq(content, IsLoaderLine)
        modified == edit_all(content, skse_lines, a)
    IN IF ~exists(f, a.modlist_ini) THEN Outcome(f, RetFalse, {})
       ELSE IF skse_lines = <<>> THEN Outcome(f, RetFalse, {})
       ELSE IF ~io.write THEN Outcome(f, RetFalse, {})
       ELSE Outcome(WriteFile(f, a.modlist_ini, RawContent(Concat(modified)), now),
                    RetTrue, {a.modlist_ini})

\* The root update_executables uses for an install on removable media:
\* [ok, val]; ok is FALSE when the expression raises IndexError.
sdcard_path_middle(modlist_dir) ==
    LET card == IF In("mmcblk0p1", modlist_dir)
                THEN SplitWord(modlist_dir, <<"mmcblk0p1">>)[2] ELSE modlist_dir
        media == <<"/", "run", "/", "media", "/">>
        parts == Split(SplitWord(card, media)[2], "/", 2)
    IN IF ~Contains(card, media) THEN [ok |-> TRUE, val |-> card]
       ELSE IF Len(parts) < 3 THEN [ok |-> FALSE, val |-> <<>>]
       ELSE [ok |-> TRUE, val |-> <<"/">> \o parts[3]]

\* '/' + '/'.join(binary_path.split('/<word>/', 1)[1].split('/')[drop:])
\* if '/<word>/' in binary_path else "": drop is 1 to leave the last piece out
AfterWord(binary_path, word, drop) ==
    LET sep == <<"/", word, "/">>
        pieces == Split(SplitWord(binary_path, sep)[2], "/", -1)
    IN IF ~Contains(binary_path, sep) THEN <<>>
       ELSE <<"/">> \o Join(SubSeq(pieces, 1, Len(pieces) - drop), "/")

\* path_end and bin_path_end of update_executables: `ok` is FALSE in the
\* branch that leaves bin_path_end unassigned ("stockgamefolder")
update_ends(binary_path, kind, type) ==
    IF kind = "stock" /\ type = "stockgamefolder"
    THEN [ok |-> FALSE, path_end |-> <<>>, bin_path_end |-> <<>>]
    ELSE IF kind = "stock" /\ type = "rootskyrimse"
    THEN [ok |-> TRUE,
          path_end |-> <<"/">> \o SplitWord(binary_path, RootSkyrim)[2],
          bin_path_end |-> <<"/">> \o SplitWord(binary_path, RootSkyrim)[2]]
    ELSE [ok |-> TRUE,
          path_end |-> AfterWord(binary_path, IF kind = "stock" THEN StockWord(type) ELSE kind, 1),
          bin_path_end |-> AfterWord(binary_path, IF kind = "stock" THEN StockWord(type) ELSE kind, 0)]

\* The rest of update_executables' work on a loader line, its key
\* (binary_num), its value (binary_path) and the kind of its value known
update_entry_of(binary_num, binary_path, kind, a) ==
    LET justnum == IF "\\" \in Range(binary_num) THEN Split(binary_num, "\\", -1)[1]
                   ELSE binary_num
        bin_path_start == Replace(binary_num, "\\", Doubled)
        path_start == Replace(justnum \o <<"\\", "workingDirectory">>, "\\", Doubled)
        drive_letter == IF a.modlist_sdcard \/ (kind = "steamapps" /\ a.basegame_sdcard)
                        THEN "D:" ELSE "Z:"
        middle ==
            IF kind = "steamapps"
            THEN [ok |-> TRUE,
                  val |-> IF a.basegame_sdcard
                          THEN (IF In("mmcblk0p1", a.steam_library)
                                THEN SplitWord(a.steam_library, <<"mmcblk0p1">>)[2]
                                ELSE a.steam_library)
                          ELSE BeforeSteamapps(a.steam_library)]
            ELSE IF a.modlist_sdcard THEN sdcard_path_middle(a.modlist_dir)
            ELSE [ok |-> TRUE, val |-> a.modlist_dir]
        ends == update_ends(binary_path, kind, dir_type(binary_path))
    IN IF kind = "none"
       THEN [go |-> FALSE, ok |-> TRUE, path_start |-> <<>>,
             full_bin_path |-> <<>>, new_path |-> <<>>]
       ELSE [go |-> TRUE, ok |-> middle.ok /\ ends.ok, path_start |-> path_start,
             full_bin_path |-> bin_path_start \o <<"=", drive_letter>> \o middle.val
                                   \o ends.bin_path_end,
             new_path |-> Replace(path_start \o <<"=", drive_letter>> \o middle.val
                                      \o ends.path_end, "/", Doubled)]

\* What update_executables makes of a line that names a loader: whether it
\* rewrites (go), whether it got through (ok), the prefix of the paired
\* line and the two lines it writes
update_entry(line, a) ==
    LET kv == IF "=" \in Range(line) THEN Split(strip(line), "=", 1) ELSE <<<<>>, <<>>>>
    IN update_entry_of(kv[1], kv[2], path_kind(kv[2]), a)

\* lines[i] = full_bin_path, then the first line that starts with path_start
\* = new_path
update_apply(lines, i, e) ==
    LET lines1 == [lines EXCEPT ![i] = e.full_bin_path \o <<"\n">>]
        working == {j \in 1..Len(lines) : StartsWith(lines1[j], e.path_start)}
    IN IF ~e.go THEN [ok |-> TRUE, lines |-> lines]
       ELSE IF ~e.ok THEN [ok |-> FALSE, lines |-> lines]
       ELSE IF working = {} THEN [ok |-> TRUE, lines |-> lines1]
       ELSE [ok |-> TRUE,
             lines |-> [lines1 EXCEPT ![Min(working)] = e.new_path \o <<"\n">>]]

\* One turn of the loop "for i, line in enumerate(lines)": [ok, lines]
update_line(lines, i, a) ==
    IF IsLoaderLine(lines[i]) THEN update_apply(lines, i, update_entry(lines[i], a))
    ELSE [ok |-> TRUE, lines |-> lines]

RECURSIVE update_from(_, _, _)

\* The loop after a turn that left r
update_next(r, i, a) == IF r.ok THEN update_from(r.lines, i, a) ELSE r

\* The loop from line i on
update_from(lines, i, a) ==
    IF i > Len(lines) THEN [ok |-> TRUE, lines |-> lines]
    ELSE update_next(update_line(lines, i, a), i + 1, a)

\* The end of update_executables, r the outcome of its loop
update_write(f, a, r, io, now) ==
    IF ~r.ok \/ ~io.write THEN Outcome(f, RetFalse, {})
    ELSE Outcome(WriteFile(f, a.modlist_ini, RawContent(Concat(r.lines)), now),
                 RetTrue, {a.modlist_ini})

\* The lines update_executables reads: open(modlist_ini, 'r').readlines()
update_read(f, a) == readlines(universal_newlines(f[a.modlist_ini].content.bytes))

\* WineUtils.update_executables(modlist_ini, modlist_dir, modlist_sdcard,
\* steam_library, basegame_sdcard), the arguments in `a`
update_executables(f, a, io, now) ==
    IF ~exists(f, a.modlist_ini) THEN Outcome(f, RetFalse, {})
    ELSE IF "\\xff" \in Range(f[a.modlist_ini].content.bytes) THEN Outcome(f, RetFalse, {})
    ELSE update_write(f, a, update_from(update_read(f, a), 1, a), io, now)

\* The names of the runtime directories of these worlds
RuntimeNames ==
    { "Proton 9.0", "Proton 9.0 (Beta)", "Proton 9.2", "Proton_9.0", "Proton 8.0",
      "GE-Proton9-1", "GE-Proton9-10", "Proton - Experimental" }

\* A name or label as the tokens its matching looks at: " " and "_" are
\* tokens of their own, a version number is split after its first digit.
Tokens(name) ==
    CASE name = "Proton 9.0" -> <<"Proton", " ", "9", ".0">>
      [] name = "Proton 9.0 (Beta)" -> <<"Proton", " ", "9", ".0", " ", "(Beta)">>
      [] name = "Proton 9.2" -> <<"Proton", " ", "9", ".2">>
      [] name = "Proton 9" -> <<"Proton", " ", "9">>
      [] name = "Proton_9.0" -> <<"Proton", "_", "9", ".0">>
      [] name = "Proton 8.0" -> <<"Proton", " ", "8", ".0">>
      [] name = "Proton 7.0" -> <<"Proton", " ", "7", ".0">>
      [] name = "GE-Proton9-1" -> <<"GE-", "Proton", "9", "-1">>
      [] name = "GE-Proton9-10" -> <<"GE-", "Proton", "9", "-1", "0">>
      [] name = "Proton - Experimental" -> <<"Proton", " ", "-", " ", "Experimental">>

\* Path.home() / ... / "steamapps/common", in the order they are searched
steam_common_paths ==
    << <<"home", ".steam", "steam", "steamapps", "common">>,
       <<"home", ".local", "share", "Steam", "steamapps", "common">>,
       <<"home", ".steam", "root", "steamapps", "common">> >>

\* base_path / name / "files/bin/wine"
wine_bin(base_path, name) == Path(base_path \o <<name, "files", "bin">>, <<"wine">>)

\* Path.is_dir
is_dir(f, dir) == \E p \in DOMAIN f : StartsWith(p.dirs, dir)

\* The entries of base_path that match and hold the wine binary, in the
\* order the directory lists them: what the loop over a glob returns from
matching(f, base_path, order, Match(_)) ==
    SelectSeq(order, LAMBDA n : /\ is_dir(f, base_path \o <<n>>)
                                /\ Match(Tokens(n))
                                /\ exists(f, wine_bin(base_path, n)))

\* The names that are spelled as a pattern is
Spelled(pattern) == {n \in RuntimeNames : Tokens(n) = pattern}

\* [proton_version, proton_version.replace(' ', '_'), proton_version.replace(' ', '')]
version_patterns(proton_version) ==
    << Tokens(proton_version),
       Replace(Tokens(proton_version), " ", <<"_">>),
       Remove(Tokens(proton_version), " ") >>

\* The special handling with one spelling only
proton9_candidates_one_spelling == <<"Proton 9.0">>

proton9_candidates == <<"Proton 9.0", "Proton 9.0 (Beta)">>

\* The special handling of Proton 9 in one root: the binaries it would
\* return, in the order it comes to them
proton9_in(f, base_path, order) ==
    SelectSeq(proton9_candidates, LAMBDA n : exists(f, wine_bin(base_path, n)))
    \o matching(f, base_path, order, LAMBDA t : StartsWith(t, <<"Proton", " ", "9">>))

\* The general case for one pattern in one root
pattern_in(f, base_path, order, pattern) ==
    SelectSeq(order, LAMBDA n : n \in Spelled(pattern) /\ exists(f, wine_bin(base_path, n)))
    \o matching(f, base_path, order, LAMBDA t : Contains(t, pattern))

\* The general case in one root
general_in(f, base_path, order, patterns) ==
    IF is_dir(f, base_path)
    THEN Concat([k \in 1..Len(patterns) |-> pattern_in(f, base_path, order, patterns[k])])
    ELSE <<>>

\* The binaries of a loop over the roots: <<base_path, name>> each
OverRoots(FoundIn(_)) ==
    Concat([r \in 1..Len(steam_common_paths) |->
               LET found == FoundIn(steam_common_paths[r])
               IN [k \in 1..Len(found) |-> <<steam_common_paths[r], found[k]>>]])

\* find_proton_binary without its fallback
proton_result_no_fallback(found, fallback) ==
    IF found # <<>>
    THEN [kind |-> "str", path |-> wine_bin(found[1][1], found[1][2]), warning |-> FALSE]
    ELSE RetNone

\* The end of find_proton_binary: the first binary of the search, or the
\* fallback with a warning, or None
proton_result(found, fallback) ==
    IF found # <<>>
    THEN [kind |-> "str", path |-> wine_bin(found[1][1], found[1][2]), warning |-> FALSE]
    ELSE IF fallback # <<>>
    THEN [kind |-> "str", path |-> wine_bin(fallback[1][1], fallback[1][2]), warning |-> TRUE]
    ELSE RetNone

\* WineUtils.find_proton_binary(proton_version); order: the order in which
\* a directory lists its entries
find_proton_binary(f, proton_version, order) ==
    proton_result(
        (IF StartsWith(strip(Tokens(proton_version)), <<"Proton", " ", "9">>)
         THEN OverRoots(LAMBDA b : proton9_in(f, b, order)) ELSE <<>>)
        \o OverRoots(LAMBDA b : general_in(f, b, order, version_patterns(proton_version))),
        OverRoots(LAMBDA b : SelectSeq(<<"Proton - Experimental">>,
                                       LAMBDA n : exists(f, wine_bin(b, n)))))

\* The text of system.reg and config_info is a sequence of tokens: "\"",
\* "=", " ", "\n", "\\xff" are tokens of their own, a key is one token and a
\* version is tokens as Tokens has them.

VersionKey == <<"\"", "SteamClientProtonVersion", "\"", "=", "\"">>

\* re.search(r'"SteamClientProtonVersion"="([^"]+)"', content): the places
\* where a match begins
version_matches(content) ==
    {i \in 1..Len(content) :
        /\ i + Len(VersionKey) <= Len(content)
        /\ SubSeq(content, i, i + Len(VersionKey) - 1) = VersionKey
        /\ content[i + Len(VersionKey)] # "\""
        /\ \E j \in (i + Len(VersionKey) + 1)..Len(content) : content[j] = "\""}

\* match.group(1) of the first match
version_group(content) ==
    LET from == Min(version_matches(content)) + Len(VersionKey)
        quote == Min({j \in from..Len(content) : content[j] = "\""})
    IN SubSeq(content, from, quote - 1)

\* The naming rule with every version prefixed
proton_ver_always_prefixed(version) == <<"Proton", " ">> \o version

\* 'version if "GE" in version else f"Proton {version}"'
proton_ver(version) ==
    IF \E i \in 1..Len(version) : version[i] \in {"GE-"} THEN version
    ELSE <<"Proton", " ">> \o version

Unknown == <<"Unknown">>

\* The part of get_proton_version that reads config_info
version_from_config_info(f, compat_data_path) ==
    LET config_info_path == Path(compat_data_path, <<"config_info">>)
        bytes == f[config_info_path].content.bytes
        lines == readlines(universal_newlines(bytes))
        config_ver == IF lines = <<>> THEN <<>> ELSE strip(lines[1])
    IN IF ~exists(f, config_info_path) THEN Unknown
       ELSE IF "\\xff" \in Range(bytes) THEN Unknown
       ELSE IF config_ver = <<>> THEN Unknown
       ELSE proton_ver(config_ver)

\* WineUtils.get_proton_version(compat_data_path)
get_proton_version(f, compat_data_path) ==
    LET system_reg_path == Path(compat_data_path \o <<"pfx">>, <<"system", ".reg">>)
        content == decode_ignore(f[system_reg_path].content.bytes)
    IN IF ~is_dir(f, compat_data_path) THEN Unknown
       ELSE IF exists(f, system_reg_path) /\ version_matches(content) # {}
       THEN proton_ver(strip(version_group(content)))
       ELSE version_from_config_info(f, compat_data_path)

\* Path.home() / ... / "steamapps/compatdata", in the order they are tried
possible_compat_bases ==
    << <<"home", ".steam", "steam", "steamapps", "compatdata">>,
       <<"home", ".local", "share", "Steam", "steamapps", "compatdata">> >>

\* The label that is spelled as the tokens of a version are
LabelOf(tokens) ==
    CHOOSE name \in RuntimeNames \cup {"Proton 9", "Proton 7.0"} : Tokens(name) = tokens

\* The tuple get_proton_paths returns: each place is <<>> for None or holds
\* one path
PathsTuple(compatdata_path, proton_path, wine) ==
    [kind |-> "tuple", compatdata_path |-> compatdata_path, proton_path |-> proton_path,
     wine_bin |-> wine]

\* The end of get_proton_paths, the compatdata directory and the version
\* known
paths_for(f, compatdata_path, proton_version, order) ==
    LET found == find_proton_binary(f, LabelOf(proton_version), order)
    IN IF proton_version = Unknown THEN PathsTuple(<<>>, <<>>, <<>>)
       ELSE IF found.kind = "None" THEN PathsTuple(<<>>, <<>>, <<>>)
       ELSE PathsTuple(<<compatdata_path>>, <<Front(found.path.dirs)>>, <<found.path>>)

\* WineUtils.get_proton_paths(appid)
get_proton_paths(f, appid, order) ==
    LET there == SelectSeq(possible_compat_bases, LAMBDA b : is_dir(f, b \o <<appid>>))
    IN IF there = <<>> THEN PathsTuple(<<>>, <<>>, <<>>)
       ELSE paths_for(f, there[1] \o <<appid>>,
                      get_proton_version(f, there[1] \o <<appid>>), order)

\* -------------------------------------------------------- ProcessManager
\* A supervised process is "running" or "stopped". cancel() is followed
\* step by step, the process being free to stop between two steps:
\*   pc: "idle" (no call under way), "terminate", "wait_terminate", "kill",
\*       "wait_kill", "killpg", "pkill"
\*   trace: the steps of the call so far, each [step, sent, raised, stopped]

\* send_signal without the poll
send_signal_no_poll(proc, sig) == <<sig>>

\* Popen.send_signal: poll() first, nothing is sent to a process that has
\* stopped
send_signal(proc, sig) == IF proc = "stopped" THEN <<>> ELSE <<sig>>

\* cancel that gives up when a step raises
cancel_goes_until_raised(pc, raised, stopped, attempts, max_cleanup_attempts) ==
    IF raised THEN "idle"
    ELSE CASE pc = "terminate" -> "wait_terminate"
           [] pc = "wait_terminate" -> IF stopped THEN "idle" ELSE "kill"
           [] pc = "kill" -> "wait_kill"
           [] pc = "wait_kill" -> IF stopped THEN "idle" ELSE "killpg"
           [] pc \in {"killpg", "pkill"} ->
                  IF attempts < max_cleanup_attempts THEN "pkill" ELSE "idle"

\* Where cancel goes after a step: raised, the step raised an exception;
\* stopped, the wait returned; attempts, cleanup_attempts after the step
cancel_goes(pc, raised, stopped, attempts, max_cleanup_attempts) ==
    CASE pc = "terminate" -> IF raised THEN "kill" ELSE "wait_terminate"
      [] pc = "wait_terminate" -> IF stopped THEN "idle" ELSE "kill"
      [] pc = "kill" -> IF raised THEN "killpg" ELSE "wait_kill"
      [] pc = "wait_kill" -> IF stopped THEN "idle" ELSE "killpg"
      [] pc \in {"killpg", "pkill"} ->
             IF attempts < max_cleanup_attempts THEN "pkill" ELSE "idle"

\* ProcessManager.__init__: the process is started
ProcessStarted ==
    [proc |-> "running", pc |-> "idle", trace |-> <<>>, cleanup_attempts |-> 0,
     max_cleanup_attempts |-> 3, stopped_at_call |-> FALSE, calls |-> 0]

\* One step of cancel: what it sent, whether it raised, whether its wait
\* saw the process stopped
StepTaken(m, sent, raised, stopped, attempts) ==
    [m EXCEPT !.trace = Append(@, [step |-> m.pc, sent |-> sent, raised |-> raised,
                                   stopped |-> stopped]),
              !.cleanup_attempts = attempts,
              !.pc = cancel_goes(m.pc, raised, stopped, attempts, m.max_cleanup_attempts)]

\* A whole call of cancel for a caller that waits for it. how.raises: each
\* signal that is tried raises; how.stops: the process stops at the first
\* signal that reaches it.
cancel_step(m, how) ==
    LET sent == CASE m.pc = "terminate" -> send_signal(m.proc, "SIGTERM")
                  [] m.pc = "kill" -> send_signal(m.proc, "SIGKILL")
                  [] m.pc = "killpg" -> <<"killpg">>
                  [] m.pc = "pkill" -> <<"pkill">>
                  [] OTHER -> <<>>
        raised == how.raises /\ sent # <<>>
        after == IF how.stops /\ sent # <<>> /\ ~raised THEN "stopped" ELSE m.proc
    IN [StepTaken(m, sent, raised,
                  m.pc \in {"wait_terminate", "wait_kill"} /\ m.proc = "stopped",
                  IF m.pc = "pkill" THEN m.cleanup_attempts + 1 ELSE m.cleanup_attempts)
           EXCEPT !.proc = after]

RECURSIVE cancel_from(_, _)
cancel_from(m, how) == IF m.pc = "idle" THEN m ELSE cancel_from(cancel_step(m, how), how)

cancel(m, how) ==
    cancel_from([m EXCEPT !.pc = "terminate", !.trace = <<>>, !.cleanup_attempts = 0,
                          !.max_cleanup_attempts = 3,
                          !.stopped_at_call = (m.proc = "stopped"),
                          !.calls = @ + 1], how)

\* ----------------------------------------------------- InstallationThread
\* The bytes of the process's output are tokens: "\n", "\r", "ESC" (0x1b),
\* "[", "0" (a parameter byte), "a" (a letter), "\\xff" (a byte that is no
\* utf-8).

ParameterBytes == {"0"}

IntermediateBytes == {" "}

FinalBytes == {"a", "["}

\* First index from i on whose byte is not in `class` (Len + 1 if none)
SkipBytes(line, i, class) ==
    Min({j \in i..(Len(line) + 1) : j = Len(line) + 1 \/ line[j] \notin class})

\* Where a match of rb'\x1b\[[0-9;?]*[ -/]*[@-~]' that begins at i ends;
\* 0 when there is none
EscapeEnd(line, i) ==
    LET j == SkipBytes(line, SkipBytes(line, i + 2, ParameterBytes), IntermediateBytes)
    IN IF /\ i + 1 <= Len(line)
          /\ line[i] = "ESC"
          /\ line[i + 1] = "["
          /\ j <= Len(line)
          /\ line[j] \in FinalBytes
       THEN j ELSE 0

\* ansi_escape.sub(b'', line), from byte i on
RECURSIVE ansi_escape_sub(_, _)
ansi_escape_sub(line, i) ==
    IF i > Len(line) THEN <<>>
    ELSE IF EscapeEnd(line, i) > 0 THEN ansi_escape_sub(line, EscapeEnd(line, i) + 1)
    ELSE <<line[i]>> \o ansi_escape_sub(line, i + 1)

\* line.decode('utf-8', errors='replace')
decode_replace(line) ==
    [i \in 1..Len(line) |-> IF line[i] = "\\xff" THEN "\\ufffd" ELSE line[i]]

\* self.<signal>.emit(ansi_escape.sub(b'', line).decode(...))
Emit(signal, line) == [signal |-> signal, text |-> decode_replace(ansi_escape_sub(line, 1))]

\* The loop, were it to split at "\n" only
RECURSIVE drain_newline_only(_, _)
drain_newline_only(buffer, emitted) ==
    LET ends == {i \in 1..Len(buffer) : buffer[i] = "\n"}
        i == Min(ends)
    IN IF ends = {} THEN [buffer |-> buffer, emitted |-> emitted]
       ELSE drain_newline_only(SubSeq(buffer, i + 1, Len(buffer)),
                               Append(emitted, Emit("output_received", SubSeq(buffer, 1, i - 1))))

\* The loop "while b'\n' in buffer or b'\r' in buffer": [buffer, emitted]
RECURSIVE drain(_, _)
drain(buffer, emitted) ==
    LET ends == {i \in 1..Len(buffer) : buffer[i] \in {"\n", "\r"}}
        i == Min(ends)
    IN IF ends = {} THEN [buffer |-> buffer, emitted |-> emitted]
       ELSE drain(SubSeq(buffer, i + 1, Len(buffer)),
                  Append(emitted,
                         Emit(IF buffer[i] = "\r" THEN "progress_received"
                              ELSE "output_received", SubSeq(buffer, 1, i - 1))))

\* "if buffer:" after the loop
flush(buffer, emitted) ==
    IF buffer # <<>> THEN Append(emitted, Emit("output_received", buffer)) ELSE emitted

ThreadIdle ==
    [state |-> "idle", out |-> <<>>, read |-> <<>>, buffer |-> <<>>, emitted |-> <<>>,
     cancelled |-> FALSE]

\* self.installation_finished.emit(success, message)
installation_finished(success, message) ==
    [signal |-> "installation_finished", success |-> success, text |-> <<message>>]

\* The report after wait(), were a cancelled run to end without a word
report_unless_cancelled(emitted, cancelled, returncode) ==
    IF cancelled THEN emitted
    ELSE Append(emitted,
                IF returncode = 0
                THEN installation_finished(TRUE, "Installation completed successfully")
                ELSE installation_finished(FALSE, "Installation failed"))

\* "if self.cancelled: ... elif self.process_manager.proc.returncode == 0:
\* ... else: ..." after process_manager.wait()
report(emitted, cancelled, returncode) ==
    Append(emitted,
           IF cancelled
           THEN installation_finished(FALSE, "Installation cancelled by user")
           ELSE IF returncode = 0
           THEN installation_finished(TRUE, "Installation completed successfully")
           ELSE installation_finished(FALSE, "Installation failed"))

\* "except Exception as e:"
report_error(emitted) ==
    Append(emitted, installation_finished(FALSE, "Installation error"))

\* InstallationThread.__init__: at, where run is; process_manager, whether
\* it is set; requests, the calls of cancel from the window so far
ThreadCreated ==
    [at |-> "created", out |-> <<>>, read |-> <<>>, buffer |-> <<>>, emitted |-> <<>>,
     cancelled |-> FALSE, process_manager |-> FALSE, requests |-> 0]

\* ------------------------------------------------- EnginePerformanceMonitor
\* The parameters of __init__, at their defaults: percent of a CPU, seconds,
\* percent of the memory, seconds

stall_threshold == 5

stall_duration == 120

memory_threshold == 85

sample_interval == 5

\* __init__: _low_cpu_start_time is <<>> for None, <<t>> for the time t;
\* _metrics_history holds, with each sample's metrics, the timer as
\* _determine_state left it
MonitorCreated == [_low_cpu_start_time |-> <<>>, _metrics_history |-> <<>>]

\* _determine_state: the state it returns and the timer it leaves
_determine_state(low_cpu_start_time, cpu_percent, memory_percent, timestamp) ==
    IF memory_percent > memory_threshold
    THEN [state |-> "high_memory", _low_cpu_start_time |-> low_cpu_start_time]
    ELSE IF cpu_percent < stall_threshold
    THEN (IF low_cpu_start_time = <<>>
          THEN [state |-> "normal", _low_cpu_start_time |-> <<timestamp>>]
          ELSE IF timestamp - low_cpu_start_time[1] >= stall_duration
          THEN [state |-> "stalled", _low_cpu_start_time |-> low_cpu_start_time]
          ELSE [state |-> "normal", _low_cpu_start_time |-> low_cpu_start_time])
    ELSE [state |-> "normal", _low_cpu_start_time |-> <<>>]

\* _collect_metrics: the sample taken at `timestamp`
_collect_metrics(m, cpu_percent, memory_percent, timestamp) ==
    LET d == _determine_state(m._low_cpu_start_time, cpu_percent, memory_percent, timestamp)
    IN [_low_cpu_start_time |-> d._low_cpu_start_time,
        _metrics_history |->
            Append(m._metrics_history,
                   [timestamp |-> timestamp, cpu_percent |-> cpu_percent,
                    memory_percent |-> memory_percent, state |-> d.state,
                    timer |-> d._low_cpu_start_time])]

\* ------------------------------------------------------------- the world

UserConfigDir == UserConfigPath("1")

shortcuts_vdf == Path(UserConfigDir, ShortcutsName)

localconfig_vdf == Path(UserConfigDir, <<"localconfig", ".vdf">>)

appmanifest_acf ==
    Path(steam_path \o <<"steamapps">>, <<"appmanifest_", "2", "2", ".acf">>)

tmp_shortcuts == Path(<<"tmp">>, ShortcutsName)

\* Entries the launcher wrote: one with an AppName, one without
SteamEntry1 == [appid |-> -5, AppName |-> "B"]

SteamEntry2 == [appid |-> -6, appname |-> "c"]

SteamTree ==
    << [key |-> <<"shortcuts">>,
        val |-> << [key |-> <<"0">>, val |-> SteamEntry1],
                   [key |-> <<"0", "1">>, val |-> SteamEntry2] >>],
       [key |-> <<"extra">>, val |-> <<>>] >>

\* The shortcut store as found: absent, empty, written by the launcher, or
\* bytes that do not decode.
StoreContents ==
    { BinContent(EmptyShortcuts), BinContent(SteamTree), RawContent(<<"junk">>) }

\* An entry block as the launcher writes it
EntryBlock(id, tool) ==
    Tabs(2) \o Quoted(id) \o <<"\n">> \o Tabs(2) \o <<"{", "\n">>
    \o Tabs(3) \o Quoted(<<"name">>) \o Tabs(2) \o Quoted(<<tool>>) \o <<"\n">>
    \o Tabs(2) \o <<"}", "\n">>

ConfigHead(nl) ==
    Quoted(<<"InstallConfigStore">>) \o nl \o <<"{">> \o nl

SectionHead == Tabs(1) \o Quoted(<<"CompatToolMapping">>) \o <<"\n">> \o Tabs(1) \o <<"{", "\n">>

SectionEnd == Tabs(1) \o <<"}", "\n">>

ConfigTail == Tabs(1) \o Quoted(<<"Music">>) \o Tabs(2) \o Quoted(<<"0">>) \o <<"\n", "}", "\n">>

\* config.vdf as found: the section with no entry or one, a header line that
\* ends "\r\n", a stray undecodable byte before the section, no section, the
\* section's name with no brace after it, a section that never closes.
ConfigTexts ==
    { ConfigHead(<<"\n">>) \o SectionHead \o SectionEnd \o ConfigTail,
      ConfigHead(<<"\n">>) \o SectionHead \o EntryBlock(<<"0">>, "proton_9")
          \o SectionEnd \o ConfigTail,
      ConfigHead(<<"\r", "\n">>) \o SectionHead \o SectionEnd \o ConfigTail,
      ConfigHead(<<"\\xff", "\n">>) \o SectionHead \o SectionEnd \o ConfigTail,
      ConfigHead(<<"\n">>) \o ConfigTail,
      ConfigHead(<<"\n">>) \o Tabs(1) \o Quoted(<<"CompatToolMapping">>) \o <<"\n">>,
      ConfigHead(<<"\n">>) \o SectionHead \o EntryBlock(<<"0">>, "proton_9") }

ExeA == Path(<<"games", "A">>, <<"ModOrganizer", ".exe">>)

ExeB == Path(<<"games", "B">>, <<"ModOrganizer", ".exe">>)

ExeC == Path(<<"games", "C">>, <<"ModOrganizer", ".exe">>)

Png == RawContent(<<"png">>)

\* Files that are there in every world
BaseFiles ==
    (Path(<<"games", "A", "SteamIcons">>, <<"grid-tall", ".png">>) :> File(Png, 0))
    @@ (Path(<<"games", "A", "SteamIcons">>, <<"banner", ".png">>) :> File(Png, 0))
    @@ (Path(<<"games", "B", "SteamIcons">>, <<"cover", ".png">>) :> File(Png, 0))
    @@ (appmanifest_acf :> File(RawContent(<<"\"", "AppState", "\"", "{", "}">>), 0))

UserFiles ==
    (localconfig_vdf :> File(RawContent(<<"\"", "UserLocalConfigStore", "\"", "{", "}">>), 0))
    @@ (Path(UserConfigPath("0"), <<"localconfig", ".vdf">>) :> File(RawContent(<<>>), 0))

Optional(p, contents) ==
    {<<>>} \cup {(p :> File(c, 0)) : c \in contents}

World(s, k) == BaseFiles @@ UserFiles @@ s @@ k

GoodConfig ==
    ConfigHead(<<"\n">>) \o SectionHead \o EntryBlock(<<"0">>, "proton_9")
        \o SectionEnd \o ConfigTail

OneFile(p, c) == (p :> File(c, 0))

\* The worlds of each specification: the files of a steam installation.
\* SpecCodec and SpecStore vary the shortcut store (and whether there is a
\* user at all), SpecCompat the mapping file, Spec both a little.
CodecWorlds ==
    { World(s, OneFile(config_path, RawContent(GoodConfig))) :
        s \in Optional(shortcuts_vdf, StoreContents) }

StoreWorlds ==
    {BaseFiles} \cup { World(s, <<>>) : s \in Optional(shortcuts_vdf, StoreContents) }

CompatWorlds ==
    { World(<<>>, k) : k \in Optional(config_path, {RawContent(t) : t \in ConfigTexts}) }

Worlds ==
    { World(s, k) :
        s \in Optional(shortcuts_vdf, {BinContent(SteamTree)}),
        k \in Optional(config_path, {RawContent(GoodConfig)}) }

\* The mod manager's configuration file of an install
modlist_ini == Path(<<"home", "user", "Games", "Inst">>, <<"ModOrganizer", ".ini">>)

HomeInst == <<"/", "home", "/", "user", "/", "Games", "/", "Inst">>

CardInst == <<"/", "run", "/", "media", "/", "deck", "/", "AB12-CD34", "/", "Games", "/", "Inst">>

\* A removable-media root with nothing below the volume name
CardRoot == <<"/", "run", "/", "media", "/", "deck", "/", "AB12-CD34">>

\* A path that has "/run/media/" in it, not at its beginning
NestedInst == <<"/", "mnt", "/", "run", "/", "media", "/", "x", "/", "y", "/", "Inst">>

SteamLibrary == <<"/", "home", "/", "user", "/", ".steam", "/", "steamapps", "/", "common">>

CardLibrary ==
    <<"/", "run", "/", "media", "/", "deck", "/", "AB12-CD34", "/", "SteamLibrary", "/",
      "steamapps", "/", "common">>

IniLine(k, field, value, nl) == <<k, "\\", field, "=">> \o value \o nl

\* One executable of [customExecutables]: its title, binary and working directory
IniEntry(k, dir, exe, nl) ==
    IniLine(k, "title", <<"SKSE">>, nl)
    \o IniLine(k, "binary", dir \o <<"/", exe>>, nl)
    \o IniLine(k, "workingDirectory", dir, nl)

IniHead(nl) == <<"[General]">> \o nl \o <<"gameName", "=", "Skyrim">> \o nl
               \o <<"[customExecutables]">> \o nl

LF == <<"\n">>

CRLF == <<"\r", "\n">>

MyModsInst == <<"/", "home", "/", "user", "/", "mymods", "/", "Inst">>

ModsFoo == HomeInst \o <<"/", "mods", "/", "Foo">>

\* ModOrganizer.ini as found: a loader under mods (lines ending "\n" or
\* "\r\n"), under the stock-game folder, under the steam library, a byte that
\* is no utf-8 in another line, two executables, no loader at all.
IniTexts ==
    { IniHead(LF) \o IniEntry("3", ModsFoo, "skse64_loader.exe", LF),
      IniHead(CRLF) \o IniEntry("3", ModsFoo, "skse64_loader.exe", CRLF),
      IniHead(LF) \o IniEntry("3", HomeInst \o <<"/", "Stock Game">>, "skse64_loader.exe", LF),
      IniHead(LF) \o IniEntry("1", SteamLibrary \o <<"/", "Fallout 4">>, "f4se_loader.exe", LF),
      IniHead(<<"\\xff", "\n">>) \o IniEntry("3", ModsFoo, "skse64_loader.exe", LF),
      IniHead(LF) \o IniEntry("3", ModsFoo, "skse64_loader.exe", LF)
          \o IniEntry("4", ModsFoo, "Tool.exe", LF),
      IniHead(LF) \o IniEntry("4", ModsFoo, "Tool.exe", LF) }

\* ModOrganizer.ini with one loader each, under: "Stock Game Folder";
\* "Stock Game" of an install below a directory "mymods"; "Game Root";
\* "root/Skyrim Special Edition"; mods; the steam library; a steam library
\* below "mymods"; a directory of no known name
AnchorTexts ==
    { IniHead(LF) \o IniEntry("3", dir, "skse64_loader.exe", LF) :
        dir \in { HomeInst \o <<"/", "Stock Game Folder">>,
                  MyModsInst \o <<"/", "Stock Game">>,
                  HomeInst \o <<"/", "Game Root">>,
                  HomeInst \o <<"/", "root", "/", "Skyrim Special Edition">>,
                  ModsFoo,
                  SteamLibrary \o <<"/", "Skyrim Special Edition">>,
                  <<"/", "home", "/", "user", "/", "mymods", "/", "steamapps", "/", "common",
                    "/", "Skyrim Special Edition">>,
                  HomeInst \o <<"/", "bin">> } }

AnchorWorlds ==
    { BaseFiles @@ k : k \in Optional(modlist_ini, {RawContent(t) : t \in AnchorTexts}) }

IniWorlds ==
    { BaseFiles @@ k : k \in Optional(modlist_ini, {RawContent(t) : t \in IniTexts}) }

\* What a root holds: runtime directories with the wine binary (TRUE) or
\* without it (FALSE)
RootLayouts ==
    { {},
      {<<"Proton 9.0 (Beta)", TRUE>>},
      {<<"Proton 9.0", TRUE>>, <<"Proton 9.2", TRUE>>},
      {<<"Proton 9.0 (Beta)", TRUE>>, <<"Proton 9.2", TRUE>>},
      {<<"Proton 9.2", TRUE>>, <<"Proton_9.0", TRUE>>},
      {<<"Proton 9.0 (Beta)", FALSE>>, <<"Proton - Experimental", TRUE>>},
      {<<"Proton 9.0", FALSE>>, <<"Proton 8.0", FALSE>>},
      {<<"Proton - Experimental", TRUE>>},
      {<<"GE-Proton9-1", TRUE>>, <<"Proton 8.0", TRUE>>},
      {<<"GE-Proton9-10", TRUE>>},
      {<<"Proton_9.0", TRUE>>, <<"Proton - Experimental", FALSE>>} }

\* The files of a root with a layout
RootFiles(base_path, layout) ==
    { IF d[2] THEN wine_bin(base_path, d[1])
      ELSE Path(base_path \o <<d[1]>>, <<"version">>) : d \in layout }

ProtonWorlds ==
    { [p \in RootFiles(steam_common_paths[1], l1) \cup RootFiles(steam_common_paths[2], l2)
             \cup RootFiles(steam_common_paths[3], l3) |-> File(RawContent(<<"elf">>), 0)] :
        l1 \in RootLayouts, l2 \in RootLayouts,
        l3 \in {{}, {<<"Proton - Experimental", TRUE>>}} }

RegLine(key, value) == <<"\"", key, "\"", "=", "\"">> \o value \o <<"\"", "\n">>

RegHead == <<"[Software\\\\Valve\\\\Steam]", "\n">>

\* The versions a prefix may record: of a runtime that is installed, with a
\* blank before it, of a community build, of a runtime that is not installed
Versions == {<<"9", ".0">>, <<" ", "8", ".0">>, <<"GE-", "Proton", "9", "-1">>, <<"7", ".0">>}

\* system.reg as found: with the version key, without it, the key with an
\* empty value, the key after a byte that is no utf-8
RegTexts ==
    {RegHead \o RegLine("SteamClientProtonVersion", v) : v \in Versions}
    \cup { RegHead \o RegLine("SteamExe", <<"steam.exe">>),
           RegHead \o RegLine("SteamClientProtonVersion", <<>>),
           <<"\\xff">> \o RegHead \o RegLine("SteamClientProtonVersion", <<"9", ".0">>) }

\* config_info as found: a version on its first line, an empty file, an
\* empty first line, a byte that is no utf-8
MarkerVersionsKnown == {<<"8", ".0">>, <<"GE-", "Proton", "9", "-1">>}

ConfigInfoTexts ==
    {v \o <<"\n">> \o <<"/usr/share/fonts", "\n">> : v \in MarkerVersionsKnown}
    \cup {<<>>, <<"\n", "8", ".0", "\n">>, <<"\\xff", "8", ".0", "\n">>}

AppId == "4242"

\* The compatdata directory of the application below a base: its
\* system.reg, its config_info, and the prefix's user.reg
CompatFiles(base) ==
    { (Path(base \o <<AppId, "pfx">>, <<"user", ".reg">>) :> File(RawContent(RegHead), 0))
      @@ r @@ c :
        r \in Optional(Path(base \o <<AppId, "pfx">>, <<"system", ".reg">>),
                       {RawContent(t) : t \in RegTexts}),
        c \in Optional(Path(base \o <<AppId>>, <<"config_info">>),
                       {RawContent(t) : t \in ConfigInfoTexts}) }

\* The runtimes of the first root
PathsLayouts ==
    { {},
      {<<"Proton 9.0", TRUE>>, <<"Proton 8.0", TRUE>>},
      {<<"GE-Proton9-1", TRUE>>, <<"Proton - Experimental", TRUE>>} }

PathsWorlds ==
    { [p \in RootFiles(steam_common_paths[1], l) |-> File(RawContent(<<"elf">>), 0)] @@ k :
        l \in PathsLayouts,
        k \in {<<>>} \cup CompatFiles(possible_compat_bases[1])
                     \cup CompatFiles(possible_compat_bases[2]) }

\* --------------------------------------------------------------- inputs

\* What the file operations of a call do: all succeed; the first copy2
\* fails; the second copy2 fails; the target does not open for writing.
IOs ==
    { [copies |-> 2, write |-> TRUE], [copies |-> 0, write |-> TRUE],
      [copies |-> 1, write |-> TRUE], [copies |-> 2, write |-> FALSE] }

\* The same for a call that copies once
IOs1 == {io \in IOs : io.copies # 1}

IOok == [copies |-> 2, write |-> TRUE]

\* For the two steps of create_shortcut_with_proton: a failure in one step
IOPairs == {<<io, IOok>> : io \in IOs1} \cup {<<IOok, io>> : io \in IOs1}

IdDraws == {ID_MIN, ID_MAX} \cup {ID_MIN + k : k \in 1..ExtraIds}

AppIds == {generate_app_id(d).unsigned : d \in IdDraws}

CreateArgs ==
    { [app_name |-> "A", exe_path |-> ExeA, start_dir |-> None,
       launch_options |-> "%command%", tags |-> None],
      [app_name |-> "B", exe_path |-> ExeB, start_dir |-> <<"/", "games">>,
       launch_options |-> "-x", tags |-> <<"Jackify", "Skyrim">>],
      [app_name |-> "A", exe_path |-> ExeC, start_dir |-> None,
       launch_options |-> "%command%", tags |-> None] }

\* The arguments create_shortcut_with_proton is called with
CompatArgs == {a \in CreateArgs : a.exe_path \in {ExeA, ExeB}}

Names == {"A", "B"}

\* (proton_version given, version detected)
ProtonRequests ==
    { <<"GE-Proton9", NoVersion>>, <<NoVersion, "proton_9">>, <<NoVersion, NoVersion>> }

SavePaths ==
    { shortcuts_vdf, tmp_shortcuts, Path(<<"tmp", ".">>, ShortcutsName),
      config_path, localconfig_vdf, appmanifest_acf,
      Path(<<"tmp">>, <<"other", ".vdf">>) }

UpdatePaths == {shortcuts_vdf, tmp_shortcuts, config_path}

SaveTrees == {EmptyShortcuts}

\* The arguments of a rewrite of ModOrganizer.ini
IniArgs ==
    { [modlist_ini |-> modlist_ini, modlist_dir |-> d, modlist_sdcard |-> sd,
       steam_library |-> lib, basegame_sdcard |-> bsd] :
        d \in {HomeInst, CardInst, CardRoot, NestedInst}, sd \in BOOLEAN,
        lib \in {SteamLibrary, CardLibrary}, bsd \in BOOLEAN }

\* The target opens for writing or it does not
IOsWrite == {io \in IOs : io.copies = 2}

SdcardPaths == {HomeInst, CardInst, CardRoot, CardRoot \o <<"/">>, NestedInst, CardLibrary}

\* The labels asked for
ProtonLabels == {"Proton 9.0", "Proton 9", "Proton 8.0", "GE-Proton9-1", "Proton - Experimental"}

\* Two orders a directory may list its entries in, one the reverse of the other
ListingOrders ==
    { <<"Proton 9.0", "Proton 9.0 (Beta)", "Proton 9.2", "Proton_9.0", "Proton 8.0",
        "GE-Proton9-1", "GE-Proton9-10", "Proton - Experimental">>,
      <<"Proton - Experimental", "GE-Proton9-10", "GE-Proton9-1", "Proton 8.0", "Proton_9.0", "Proton 9.2",
        "Proton 9.0 (Beta)", "Proton 9.0">> }

\* The applications asked about: one with a prefix in these worlds, one
\* without
AppIds4 == {AppId, "999"}

\* The values of max_cleanup_attempts cancel is called with (3 by default)
CleanupAttempts == {0, 1, 3}

\* How a whole call of cancel may go
CancelRuns == [raises : BOOLEAN, stops : BOOLEAN]

OutputBytes == {"a", "0", "\n", "\r", "ESC", "[", "\\xff"}

RECURSIVE BytesOfLen(_)
BytesOfLen(n) ==
    IF n = 0 THEN {<<>>} ELSE {Append(s, b) : s \in BytesOfLen(n - 1), b \in OutputBytes}

\* What the process may write
Streams == UNION {BytesOfLen(n) : n \in 0..MaxOutput}

\* What the process may write in a run of SpecRun
RunStreams == UNION {BytesOfLen(n) : n \in 0..MaxRunOutput}

\* The exit status of the process
ReturnCodes == {0, 1}

\* What a sample may read: CPU below, at and above stall_threshold, memory
\* below, at and above memory_threshold
CpuPercents == {0, stall_threshold, 50}

MemoryPercents == {10, memory_threshold, 90}

\* The seconds between two samples: sample_interval, or longer when the
\* turn of the loop took its time
Sleeps == {sample_interval, 60}

\* ---------------------------------------------------------------- state

VARIABLES
    fs,                \* the file system
    user_config_path,  \* NativeSteamService.user_config_path (None: not found yet)
    now,               \* time.time(), in seconds
    budget,            \* operations left in this run
    pre,               \* the file system before the last operation
    last,              \* the last operation: [op, arg, ret, wopen]
    assigned,          \* the slots given to new shortcuts so far, in order
    pm,                \* the ProcessManager: its process and the cancel under way
    thread,            \* the InstallationThread: the output it has yet to read,
                       \* has read, holds in its buffer and has emitted
    monitor            \* the EnginePerformanceMonitor: its stall timer and samples

vars == <<fs, user_config_path, now, budget, pre, last, assigned, pm, thread, monitor>>

\* The variables of the steam services and file handlers
engine_vars == <<fs, user_config_path, now, budget, pre, last, assigned>>

\* The shortcuts of the store file of user "1", as the launcher would read
\* them: the dict under "shortcuts" (empty when the file is absent or does
\* not decode).
StoreTree(f) ==
    IF exists(f, shortcuts_vdf) /\ binary_loads(f[shortcuts_vdf].content).ok
    THEN binary_loads(f[shortcuts_vdf].content).tree ELSE <<>>

Shortcuts(f) == DGet(StoreTree(f), <<"shortcuts">>, <<>>)

\* The keys of g's shortcuts that f's shortcuts do not have, in order
NewSlots(f, g) ==
    SelectSeq(DKeys(Shortcuts(g)), LAMBDA k : ~DHas(Shortcuts(f), k))

InitWith(worlds, n) ==
    /\ fs \in worlds
    /\ user_config_path = None
    /\ now = 0
    /\ budget = n
    /\ pre = fs
    /\ last = [op |-> "init", arg |-> <<>>, ret |-> RetNone, wopen |-> {}]
    /\ assigned = <<>>
    /\ pm = ProcessStarted
    /\ thread = ThreadIdle
    /\ monitor = MonitorCreated

\* The step that runs `op` on `arg` and leaves `out`; ucp: the user config
\* path the service holds afterwards.
Ran(op, arg, out, ucp) ==
    /\ budget > 0
    /\ budget' = budget - 1
    /\ pre' = fs
    /\ fs' = out.fs
    /\ last' = [op |-> op, arg |-> arg, ret |-> out.ret, wopen |-> out.wopen]
    /\ user_config_path' = ucp
    /\ assigned' = assigned \o NewSlots(fs, out.fs)
    /\ UNCHANGED <<now, pm, thread, monitor>>

\* The directories find_steam_user may list first
Picks == IF ValidUsers(fs) = {} THEN {"-"} ELSE ValidUsers(fs)

Tick ==
    /\ now < MaxTime
    /\ now' = now + 1
    /\ UNCHANGED <<fs, user_config_path, budget, pre, last, assigned, pm, thread, monitor>>

Load ==
    \E p \in SavePaths, binary \in BOOLEAN, io \in IOs1 :
        Ran("load", [path |-> p, binary |-> binary, io |-> io],
            load(fs, p, binary, io), user_config_path)

Save ==
    \E p \in SavePaths, data \in SaveTrees, binary \in BOOLEAN, io \in IOs :
        Ran("save", [path |-> p, data |-> data, binary |-> binary, io |-> io],
            save(fs, p, data, binary, io, now), user_config_path)

UpdateShortcuts ==
    \E p \in UpdatePaths, fn \in UpdateFunctions, io \in IOs :
        Ran("update_shortcuts", [path |-> p, fn |-> fn, io |-> io],
            update_shortcuts(fs, p, fn, io, now), user_config_path)

CreateShortcut ==
    \E a \in CreateArgs, draw \in IdDraws, io \in IOs1, pick \in Picks :
        LET ucp == find_steam_user(fs, user_config_path, pick)
        IN Ran("create_shortcut", [a |-> a, io |-> io],
               create_shortcut(fs, ucp, a, draw, io, now), ucp)

RemoveShortcut ==
    \E n \in Names, io \in IOs1, pick \in Picks :
        LET ucp == find_steam_user(fs, user_config_path, pick)
        IN Ran("remove_shortcut", [app_name |-> n, io |-> io],
               remove_shortcut(fs, ucp, n, io, now), ucp)

ListShortcuts ==
    \E pick \in Picks :
        LET ucp == find_steam_user(fs, user_config_path, pick)
        IN Ran("list_shortcuts", <<>>,
               Outcome(fs, [kind |-> "dict", dict |-> list_shortcuts(fs, ucp)], {}), ucp)

SetProtonVersion ==
    \E id \in AppIds, v \in {"GE-Proton9"}, io \in IOs1 :
        Ran("set_proton_version", [app_id |-> id, proton_version |-> v, io |-> io],
            set_proton_version(fs, id, v, io, now), user_config_path)

CreateShortcutWithProton ==
    \E a \in CompatArgs, draw \in IdDraws, r \in ProtonRequests,
       ios \in IOPairs, pick \in Picks :
        LET ucp == find_steam_user(fs, user_config_path, pick)
        IN Ran("create_shortcut_with_proton",
               [a |-> a, version |-> resolve_proton_version(r[1], r[2]), ios |-> ios],
               create_shortcut_with_proton(fs, ucp, a, draw, r[1], r[2],
                                           ios[1], ios[2], now), ucp)

EditBinaryWorkingPaths ==
    \E a \in IniArgs, io \in IOsWrite :
        Ran("edit_binary_working_paths", [a |-> a, io |-> io],
            edit_binary_working_paths(fs, a, io, now), user_config_path)

UpdateExecutables ==
    \E a \in IniArgs, io \in IOsWrite :
        Ran("update_executables", [a |-> a, io |-> io],
            update_executables(fs, a, io, now), user_config_path)

StripSdcardPath ==
    \E p \in SdcardPaths :
        Ran("_strip_sdcard_path", [path |-> p],
            Outcome(fs, [kind |-> "str", str |-> strip_sdcard_path(p)], {}),
            user_config_path)

FindProtonBinary ==
    \E v \in ProtonLabels, order \in ListingOrders :
        Ran("find_proton_binary", [proton_version |-> v, order |-> order],
            Outcome(fs, find_proton_binary(fs, v, order), {}), user_config_path)

GetProtonVersion ==
    \E b \in {1, 2}, appid \in AppIds4 :
        Ran("get_proton_version", [compat_data_path |-> possible_compat_bases[b] \o <<appid>>],
            Outcome(fs, [kind |-> "str",
                         str |-> get_proton_version(fs, possible_compat_bases[b] \o <<appid>>)],
                    {}),
            user_config_path)

GetProtonPaths ==
    \E appid \in AppIds4, order \in ListingOrders :
        Ran("get_proton_paths", [appid |-> appid, order |-> order],
            Outcome(fs, get_proton_paths(fs, appid, order), {}), user_config_path)

\* The process ends, by itself or from a signal it got
ProcessExits ==
    /\ pm.proc = "running"
    /\ pm' = [pm EXCEPT !.proc = "stopped"]
    /\ UNCHANGED <<engine_vars, thread, monitor>>

\* cancel() is called: "cleanup_attempts = 0", "if self.proc:"
Cancel ==
    /\ pm.pc = "idle"
    /\ pm.calls < MaxCancels
    /\ \E n \in CleanupAttempts :
           pm' = [pm EXCEPT !.pc = "terminate", !.trace = <<>>, !.cleanup_attempts = 0,
                            !.max_cleanup_attempts = n,
                            !.stopped_at_call = (pm.proc = "stopped"),
                            !.calls = @ + 1]
    /\ UNCHANGED <<engine_vars, thread, monitor>>

\* self.proc.terminate()
CancelTerminate ==
    /\ pm.pc = "terminate"
    /\ \E raised \in {FALSE, pm.proc = "running"} :
           pm' = StepTaken(pm, send_signal(pm.proc, "SIGTERM"), raised, FALSE,
                           pm.cleanup_attempts)
    /\ UNCHANGED <<engine_vars, thread, monitor>>

\* self.proc.wait(timeout=timeout_terminate): returns, or TimeoutExpired
CancelWaitTerminate ==
    /\ pm.pc = "wait_terminate"
    /\ pm' = StepTaken(pm, <<>>, FALSE, pm.proc = "stopped", pm.cleanup_attempts)
    /\ UNCHANGED <<engine_vars, thread, monitor>>

\* self.proc.kill()
CancelKill ==
    /\ pm.pc = "kill"
    /\ \E raised \in {FALSE, pm.proc = "running"} :
           pm' = StepTaken(pm, send_signal(pm.proc, "SIGKILL"), raised, FALSE,
                           pm.cleanup_attempts)
    /\ UNCHANGED <<engine_vars, thread, monitor>>

\* self.proc.wait(timeout=timeout_kill)
CancelWaitKill ==
    /\ pm.pc = "wait_kill"
    /\ pm' = StepTaken(pm, <<>>, FALSE, pm.proc = "stopped", pm.cleanup_attempts)
    /\ UNCHANGED <<engine_vars, thread, monitor>>

\* os.killpg(self.process_group_pid, signal.SIGKILL)
CancelKillpg ==
    /\ pm.pc = "killpg"
    /\ \E raised \in BOOLEAN :
           pm' = StepTaken(pm, <<"killpg">>, raised, FALSE, pm.cleanup_attempts)
    /\ UNCHANGED <<engine_vars, thread, monitor>>

\* subprocess.run(['pkill', '-f', ...]); cleanup_attempts += 1
CancelPkill ==
    /\ pm.pc = "pkill"
    /\ \E raised \in BOOLEAN :
           pm' = StepTaken(pm, <<"pkill">>, raised, FALSE, pm.cleanup_attempts + 1)
    /\ UNCHANGED <<engine_vars, thread, monitor>>

\* InstallationThread.run up to its loop: the process is started; out is
\* what it will write
ThreadStart ==
    /\ thread.state = "idle"
    /\ \E out \in Streams : thread' = [ThreadIdle EXCEPT !.state = "reading", !.out = out]
    /\ pm' = ProcessStarted
    /\ UNCHANGED <<engine_vars, monitor>>

\* InstallationThread.cancel, called from the window
ThreadCancel ==
    /\ thread.state = "reading"
    /\ ~thread.cancelled
    /\ thread' = [thread EXCEPT !.cancelled = TRUE]
    /\ \E how \in CancelRuns : pm' = cancel(pm, how)
    /\ UNCHANGED <<engine_vars, monitor>>

\* One turn of the loop of run that reads a byte
ThreadRead ==
    /\ thread.state = "reading"
    /\ ~thread.cancelled
    /\ thread.out # <<>>
    /\ LET d == drain(Append(thread.buffer, Head(thread.out)), thread.emitted)
       IN thread' = [thread EXCEPT !.out = Tail(@), !.read = Append(@, Head(thread.out)),
                                   !.buffer = d.buffer, !.emitted = d.emitted]
    /\ UNCHANGED <<engine_vars, pm, monitor>>

\* The turn in which read_stdout_char returns b'': the rest of the buffer is
\* emitted; process_manager.wait() returns when the process has stopped
ThreadEndOfStream ==
    /\ thread.state = "reading"
    /\ ~thread.cancelled
    /\ thread.out = <<>>
    /\ thread' = [thread EXCEPT !.state = "finished", !.buffer = <<>>,
                                !.emitted = flush(thread.buffer, @)]
    /\ pm' = [pm EXCEPT !.proc = "stopped"]
    /\ UNCHANGED <<engine_vars, monitor>>

\* The turn that finds self.cancelled set: self.cancel(), break, the rest of
\* the buffer is emitted, process_manager.wait(), and in the finally clause
\* process_manager.cancel() on the process that has stopped
ThreadSeesCancelled ==
    /\ thread.state = "reading"
    /\ thread.cancelled
    /\ thread' = [thread EXCEPT !.state = "finished", !.buffer = <<>>,
                                !.emitted = flush(thread.buffer, @)]
    /\ \E how \in CancelRuns :
          pm' = cancel([cancel(pm, how) EXCEPT !.proc = "stopped"], how)
    /\ UNCHANGED <<engine_vars, monitor>>

\* run up to "self.process_manager = ProcessManager(...)": the process is
\* started; out is what it will write
RunLaunch ==
    /\ thread.at = "created"
    /\ \E out \in RunStreams :
          thread' = [thread EXCEPT !.at = "loop", !.out = out, !.process_manager = TRUE]
    /\ pm' = ProcessStarted
    /\ UNCHANGED <<engine_vars, monitor>>

\* get_jackify_engine_path(), ConfigHandler() or subprocess.Popen raises
RunLaunchRaises ==
    /\ thread.at = "created"
    /\ thread' = [thread EXCEPT !.at = "except"]
    /\ UNCHANGED <<engine_vars, pm, monitor>>

\* "if self.cancelled:" at the head of a turn of the loop finds it unset
RunNotCancelled ==
    /\ thread.at = "loop"
    /\ ~thread.cancelled
    /\ thread' = [thread EXCEPT !.at = "read"]
    /\ UNCHANGED <<engine_vars, pm, monitor>>

\* "if self.cancelled: self.cancel(); break"
RunSeesCancelled ==
    /\ thread.at = "loop"
    /\ thread.cancelled
    /\ thread' = [thread EXCEPT !.at = "flush"]
    /\ \E how \in CancelRuns : pm' = cancel(pm, how)
    /\ UNCHANGED <<engine_vars, monitor>>

\* read_stdout_char() returns a byte; the loop over the buffer
RunRead ==
    /\ thread.at = "read"
    /\ thread.out # <<>>
    /\ LET d == drain(Append(thread.buffer, Head(thread.out)), thread.emitted)
       IN thread' = [thread EXCEPT !.at = "loop", !.out = Tail(@),
                                   !.read = Append(@, Head(thread.out)),
                                   !.buffer = d.buffer, !.emitted = d.emitted]
    /\ UNCHANGED <<engine_vars, pm, monitor>>

\* read_stdout_char() returns b'': the process has stopped (what it had
\* not written yet is never written)
RunEndOfStream ==
    /\ thread.at = "read"
    /\ pm.proc = "stopped"
    /\ thread' = [thread EXCEPT !.at = "flush"]
    /\ UNCHANGED <<engine_vars, pm, monitor>>

\* read_stdout_char() raises
RunReadRaises ==
    /\ thread.at = "read"
    /\ thread' = [thread EXCEPT !.at = "except"]
    /\ UNCHANGED <<engine_vars, pm, monitor>>

\* "if buffer:" after the loop
RunFlush ==
    /\ thread.at = "flush"
    /\ thread' = [thread EXCEPT !.at = "wait", !.buffer = <<>>,
                                !.emitted = flush(thread.buffer, @)]
    /\ UNCHANGED <<engine_vars, pm, monitor>>

\* self.process_manager.wait() returns, and the report that follows it
RunReport ==
    /\ thread.at = "wait"
    /\ pm.proc = "stopped"
    /\ \E returncode \in ReturnCodes :
          thread' = [thread EXCEPT !.at = "finally",
                                   !.emitted = report(@, thread.cancelled, returncode)]
    /\ UNCHANGED <<engine_vars, pm, monitor>>

\* "except Exception as e:"
RunExcept ==
    /\ thread.at = "except"
    /\ thread' = [thread EXCEPT !.at = "finally", !.emitted = report_error(@)]
    /\ UNCHANGED <<engine_vars, pm, monitor>>

\* "finally: if self.cancelled and self.process_manager:
\* self.process_manager.cancel()"
RunFinally ==
    /\ thread.at = "finally"
    /\ thread' = [thread EXCEPT !.at = "done"]
    /\ IF thread.cancelled /\ thread.process_manager
       THEN \E how \in CancelRuns : pm' = cancel(pm, how)
       ELSE pm' = pm
    /\ UNCHANGED <<engine_vars, monitor>>

\* InstallationThread.cancel called from the window, wherever run is
RunCancel ==
    /\ thread.requests < MaxRequests
    /\ thread' = [thread EXCEPT !.cancelled = TRUE, !.requests = @ + 1]
    /\ IF thread.process_manager
       THEN \E how \in CancelRuns : pm' = cancel(pm, how)
       ELSE pm' = pm
    /\ UNCHANGED <<engine_vars, monitor>>

\* One turn of _monitor_loop: the sleep since the turn before, then
\* _collect_metrics at time.time() and the append to _metrics_history
MonitorSample ==
    /\ Len(monitor._metrics_history) < MaxSamples
    /\ \E cpu_percent \in CpuPercents, memory_percent \in MemoryPercents, dt \in Sleeps :
          /\ now' = now + dt
          /\ monitor' = _collect_metrics(monitor, cpu_percent, memory_percent, now + dt)
    /\ UNCHANGED <<fs, user_config_path, budget, pre, last, assigned, pm, thread>>

\* Every operation of the engine
Next ==
    \/ Tick
    \/ Load
    \/ Save
    \/ UpdateShortcuts
    \/ CreateShortcut
    \/ RemoveShortcut
    \/ ListShortcuts
    \/ SetProtonVersion
    \/ CreateShortcutWithProton

Init == InitWith(Worlds, MaxOps)

Spec == Init /\ [][Next]_vars

\* The codec alone
InitCodec == InitWith(CodecWorlds, MaxCodecOps)

NextCodec == Tick \/ Load \/ Save \/ UpdateShortcuts

SpecCodec == InitCodec /\ [][NextCodec]_vars

\* The registrar's shortcut operations
InitStore == InitWith(StoreWorlds, MaxStoreOps)

NextStore == Tick \/ CreateShortcut \/ RemoveShortcut \/ ListShortcuts

SpecStore == InitStore /\ [][NextStore]_vars

\* The registrar's compatibility-tool operations
InitCompat == InitWith(CompatWorlds, MaxCompatOps)

NextCompat == Tick \/ SetProtonVersion \/ CreateShortcutWithProton

SpecCompat == InitCompat /\ [][NextCompat]_vars

\* The rewrites of ModOrganizer.ini
InitIni == InitWith(IniWorlds, MaxIniOps)

NextIni == Tick \/ EditBinaryWorkingPaths \/ UpdateExecutables \/ StripSdcardPath

SpecIni == InitIni /\ [][NextIni]_vars

\* One rewrite of a ModOrganizer.ini whose loader is under one of the folders
\* the rewriters know by name
InitAnchor == InitWith(AnchorWorlds, MaxAnchorOps)

NextAnchor == EditBinaryWorkingPaths \/ UpdateExecutables

SpecAnchor == InitAnchor /\ [][NextAnchor]_vars

\* The search for a runtime's binary
InitProton == InitWith(ProtonWorlds, MaxProtonOps)

NextProton == Tick \/ FindProtonBinary

SpecProton == InitProton /\ [][NextProton]_vars

\* The runtime of an application's prefix
InitPaths == InitWith(PathsWorlds, MaxPathsOps)

NextPaths == GetProtonVersion \/ GetProtonPaths

SpecPaths == InitPaths /\ [][NextPaths]_vars

\* A supervised process and the calls of cancel
InitCancel == InitWith({BaseFiles}, 0)

NextCancel ==
    \/ ProcessExits
    \/ Cancel
    \/ CancelTerminate
    \/ CancelWaitTerminate
    \/ CancelKill
    \/ CancelWaitKill
    \/ CancelKillpg
    \/ CancelPkill

SpecCancel == InitCancel /\ [][NextCancel]_vars

\* The thread that reads the output of the engine
InitThread == InitWith({BaseFiles}, 0)

NextThread ==
    \/ ThreadStart
    \/ ThreadCancel
    \/ ThreadRead
    \/ ThreadEndOfStream
    \/ ThreadSeesCancelled

SpecThread == InitThread /\ [][NextThread]_vars

\* One run of the thread and the calls of cancel from the window
InitRun ==
    /\ fs = BaseFiles
    /\ user_config_path = None
    /\ now = 0
    /\ budget = 0
    /\ pre = fs
    /\ last = [op |-> "init", arg |-> <<>>, ret |-> RetNone, wopen |-> {}]
    /\ assigned = <<>>
    /\ pm = [ProcessStarted EXCEPT !.proc = "none"]
    /\ thread = ThreadCreated
    /\ monitor = MonitorCreated

NextRun ==
    \/ RunLaunch
    \/ RunLaunchRaises
    \/ RunNotCancelled
    \/ RunSeesCancelled
    \/ RunRead
    \/ RunEndOfStream
    \/ RunReadRaises
    \/ RunFlush
    \/ RunReport
    \/ RunExcept
    \/ RunFinally
    \/ RunCancel
    \/ ProcessExits

SpecRun == InitRun /\ [][NextRun]_vars

\* The monitor and its samples
InitMonitor == InitWith({BaseFiles}, 0)

NextMonitor == MonitorSample

SpecMonitor == InitMonitor /\ [][NextMonitor]_vars

\* ----------------------------------------------------------------- claims

\* The file name of a path as written, "." components aside
FileName(p) == p.name

\* C1: VDFHandler.save on a path whose file name is in the protected set,
\* matches the appmanifest pattern, or is anything but shortcuts.vdf raises
\* ValueError (neither True nor the False of an I/O failure) and leaves the
\* file system as it was: no backup, no write, no file added.
C1_SaveRejectsOtherNames ==
    (last.op = "save" /\ FileName(last.arg.path) # <<"shortcuts", ".vdf">>)
        => /\ last.ret.kind = "ValueError"
           /\ fs = pre
           /\ last.wopen = {}

\* save was called on config.vdf, which exists, and raised ValueError
C1_Witness ==
    /\ last.op = "save"
    /\ last.arg.path = config_path
    /\ exists(pre, config_path)
    /\ last.ret.kind = "ValueError"

\* C2: over every operation, the only store file opened for writing is
\* shortcuts.vdf, and a file with a protected name keeps its content.
C2_OnlyShortcutsWritten ==
    /\ \A p \in last.wopen : FileName(p) = <<"shortcuts", ".vdf">>
    /\ \A p \in DOMAIN pre :
          FileName(p) \in PROTECTED_VDF_FILES
              => exists(fs, p) /\ fs[p].content = pre[p].content

\* The store file exists, is not empty and does not decode
Undecodable(f) ==
    /\ exists(f, shortcuts_vdf)
    /\ f[shortcuts_vdf].content # RawContent(<<>>)
    /\ ~binary_loads(f[shortcuts_vdf].content).ok

\* C3: when the store file exists, is not empty and does not decode, an
\* operation that loads it aborts and leaves the file as it was: it reports
\* failure and never writes a tree built from an empty substitute.
C3_ParseErrorAborts ==
    (/\ last.op \in {"create_shortcut", "remove_shortcut", "update_shortcuts"}
     /\ Undecodable(pre))
        => /\ fs[shortcuts_vdf] = pre[shortcuts_vdf]
           /\ last.ret.kind \in {"False", "pair"}
           /\ last.ret.kind = "pair" => ~last.ret.ok

\* How many shortcuts a listing holds under the name n
CountName(listing, n) == Cardinality({i \in 1..Len(listing) : listing[i].val = n})

Created == last.op = "create_shortcut" /\ last.ret.ok

\* C4, as claimed: after create_shortcut(n, ...) returns Success,
\* list_shortcuts() contains n exactly once.
C4_ListedExactlyOnce ==
    Created => CountName(list_shortcuts(fs, user_config_path), last.arg.a.app_name) = 1

\* C4, amended: after create_shortcut(n, ...) returns Success,
\* list_shortcuts() contains n once more than it did before the call: at
\* least once, and exactly once when no shortcut was named n before.
C4_ListedOnceMore ==
    Created =>
        CountName(list_shortcuts(fs, user_config_path), last.arg.a.app_name)
            = CountName(list_shortcuts(pre, user_config_path), last.arg.a.app_name) + 1

\* create_shortcut("B") succeeded on a store that already listed a "B"
C4_Witness ==
    /\ Created
    /\ last.arg.a.app_name = "B"
    /\ CountName(list_shortcuts(pre, user_config_path), "B") = 1
    /\ CountName(list_shortcuts(fs, user_config_path), "B") = 2

BigSub(a, b) ==
    LET lo == a[2] - b[2]
    IN <<a[1] - b[1] + (lo \div Base), lo % Base>>

BigLess(a, b) == a[1] < b[1] \/ (a[1] = b[1] /\ a[2] < b[2])

\* The entry the last create_shortcut added
NewEntry == DGet(Shortcuts(fs), NewSlots(pre, fs)[1], <<>>)

\* C5: the identifier create_shortcut returns and the appid it stores in the
\* new entry are one draw: unsigned = signed + 2^32, the signed one negative
\* with a magnitude in 100000000..999999999, so 0 < unsigned < 2^32.
C5_UnsignedIsSignedPlusTwoPow32 ==
    Created =>
        /\ Len(NewSlots(pre, fs)) = 1
        /\ NewEntry.appid < 0
        /\ -NewEntry.appid >= 100000000
        /\ -NewEntry.appid <= 999999999
        /\ BigSub(last.ret.app_id, <<42949, 67296>>) = <<NewEntry.appid \div Base, NewEntry.appid % Base>>
        /\ BigLess(<<0, 0>>, last.ret.app_id)
        /\ BigLess(last.ret.app_id, <<42949, 67296>>)

\* create_shortcut succeeded with the largest magnitude drawn
C5_Witness ==
    /\ Created
    /\ Len(NewSlots(pre, fs)) = 1
    /\ NewEntry.appid = -999999999
    /\ last.ret.app_id = <<32949, 67297>>

\* The highest numeric slot index of a dict, -1 when it has none
RECURSIVE HighestIndex(_)
HighestIndex(d) ==
    IF d = <<>> THEN -1
    ELSE LET rest == HighestIndex(Front(d))
             k == Last(d).key
         IN IF IsDigit(k) /\ IntOf(k) > rest THEN IntOf(k) ELSE rest

\* C6, as claimed (its last part): a slot index once assigned is never
\* assigned again.
C6_SlotNeverReused ==
    \A i, j \in 1..Len(assigned) : i # j => assigned[i] # assigned[j]

\* C6, amended: create_shortcut stores the new entry at slot
\* max(existing numeric slot indices) + 1, or 0 when there is none, and never
\* overwrites an occupied slot; remove_shortcut leaves the slots of the other
\* entries as they are (no compaction).  A slot freed by removing the entry
\* of the highest index is assigned again.
C6_NextSlotAboveAll ==
    /\ Created =>
          /\ NewSlots(pre, fs) = <<StrOf(HighestIndex(Shortcuts(pre)) + 1)>>
          /\ \A i \in 1..Len(Shortcuts(pre)) :
                Shortcuts(fs)[i] = Shortcuts(pre)[i]
    /\ (last.op = "remove_shortcut" /\ last.ret.kind = "True") =>
          \A i \in 1..Len(Shortcuts(fs)) :
              \E j \in 1..Len(Shortcuts(pre)) : Shortcuts(fs)[i] = Shortcuts(pre)[j]

\* create_shortcut took slot 2 of a store holding slots "0" and "01"
C6_Witness ==
    /\ Created
    /\ DKeys(Shortcuts(pre)) = << <<"0">>, <<"0", "1">> >>
    /\ NewSlots(pre, fs) = << <<"2">> >>

\* d without its i-th entry
Without(d, i) == SubSeq(d, 1, i - 1) \o SubSeq(d, i + 1, Len(d))

\* Every key of tree t other than "shortcuts" is in tree u with its value
OtherKeysKept(t, u) ==
    \A i \in 1..Len(t) :
        t[i].key # <<"shortcuts">> => DHas(u, t[i].key) /\ DGet(u, t[i].key, <<>>) = t[i].val

Named(e, n) == "AppName" \in DOMAIN e.val /\ e.val.AppName = n

\* C10: on a store that reads, create_shortcut and list_shortcuts leave every
\* entry that was there (and every other key of the tree) present and
\* unchanged; a successful remove_shortcut(n) removes exactly one entry, named
\* n, and leaves the others unchanged; remove_shortcut(n) with no entry named
\* n returns failure and writes nothing.
C10_OnlyRemoveByNameDestroys ==
    ~Undecodable(pre) =>
        /\ last.op \in {"create_shortcut", "list_shortcuts"} =>
              /\ \A i \in 1..Len(Shortcuts(pre)) : Shortcuts(fs)[i] = Shortcuts(pre)[i]
              /\ OtherKeysKept(StoreTree(pre), StoreTree(fs))
        /\ (last.op = "remove_shortcut" /\ last.ret.kind = "True") =>
              /\ \E i \in 1..Len(Shortcuts(pre)) :
                    /\ Named(Shortcuts(pre)[i], last.arg.app_name)
                    /\ Shortcuts(fs) = Without(Shortcuts(pre), i)
              /\ OtherKeysKept(StoreTree(pre), StoreTree(fs))
        /\ (/\ last.op = "remove_shortcut"
            /\ \A i \in 1..Len(Shortcuts(pre)) : ~Named(Shortcuts(pre)[i], last.arg.app_name)) =>
              /\ last.ret.kind = "False"
              /\ last.wopen = {}
              /\ fs = pre
        /\ (last.op = "remove_shortcut" /\ last.ret.kind # "True") =>
              Shortcuts(fs) = Shortcuts(pre)

\* remove_shortcut("B") took one of two entries named "B" and left the other
C10_Witness ==
    /\ last.op = "remove_shortcut"
    /\ last.ret.kind = "True"
    /\ last.arg.app_name = "B"
    /\ Cardinality({i \in 1..Len(Shortcuts(pre)) : Named(Shortcuts(pre)[i], "B")}) = 2
    /\ Cardinality({i \in 1..Len(Shortcuts(fs)) : Named(Shortcuts(fs)[i], "B")}) = 1
    /\ Len(Shortcuts(fs)) = 2

\* The section of a mapping file's text: the positions (from 0) of the brace
\* that opens "CompatToolMapping" and of the brace that closes it
Section(text) ==
    LET s == Find(text, Quoted(<<"CompatToolMapping">>), 0)
        o == Find(text, <<"{">>, s)
    IN [open |-> o, close |-> MatchBrace(text, o + 1, 1)]

\* The blocks of t that no other block of t encloses
EntriesIn(t) ==
    Cardinality({i \in 1..Len(t) : t[i] = "{" /\ Depth(SubSeq(t, 1, i - 1)) = 0})

\* The entries of the section of text
SectionEntries(text) ==
    EntriesIn(SubSeq(text, Section(text).open + 2, Section(text).close))

\* C7: a successful set_proton_version(app_id, proton_version) leaves the
\* mapping file equal to its bytes before the call with one entry block
\* inserted just before the brace that closes the section: the bytes outside
\* the section are as they were, the section holds one entry more, the block
\* is one balanced block whose key is the decimal string of app_id; so also
\* when the section already has an entry for app_id.
C7_InsertsOneEntry ==
    (last.op = "set_proton_version" /\ last.ret.kind = "True") =>
        LET before == pre[config_path].content.bytes
            after == fs[config_path].content.bytes
            close == Section(before).close
            block == SubSeq(after, close + 1, close + Len(after) - Len(before))
        IN /\ close # -1
           /\ Len(after) > Len(before)
           /\ SubSeq(after, 1, close) = SubSeq(before, 1, close)
           /\ SubSeq(after, close + 1 + Len(block), Len(after))
                  = SubSeq(before, close + 1, Len(before))
           /\ EntriesIn(block) = 1
           /\ Depth(block) = 0
           /\ Contains(block, Quoted(StrOfBig(last.arg.app_id)) \o <<"\n">>)
           /\ SectionEntries(after) = SectionEntries(before) + 1

\* The shortcut added by the last operation carries the signed form of id
PersistedNew(id) ==
    /\ Len(Shortcuts(fs)) = Len(Shortcuts(pre)) + 1
    /\ \A i \in 1..Len(Shortcuts(pre)) : Shortcuts(fs)[i] = Shortcuts(pre)[i]
    /\ BigAdd(BigOfInt(Last(Shortcuts(fs)).val.appid), TwoPow32) = id

\* No file beside the mapping file was added, removed or changed
MappingUntouched ==
    \A p \in (DOMAIN pre) \cup (DOMAIN fs) :
        p.dirs = config_path.dirs => p \in DOMAIN pre /\ p \in DOMAIN fs /\ fs[p] = pre[p]

MappingContentKept ==
    IF exists(pre, config_path)
    THEN exists(fs, config_path) /\ fs[config_path].content = pre[config_path].content
    ELSE ~exists(fs, config_path)

\* C8: create_shortcut_with_proton returns one of three results.  (True, id):
\* the shortcut with the signed form of id is in the store and the mapping
\* file has an entry keyed by the decimal string of id for the version asked.
\* (False, None): the store is not written and nothing in the mapping file's
\* directory is touched.  (False, id): the shortcut with the signed form of
\* id is in the store (it is not rolled back) and the mapping file's content
\* is as before.
C8_ThreeOutcomes ==
    last.op = "create_shortcut_with_proton" =>
        /\ last.ret.kind = "pair"
        /\ last.ret.ok =>
              /\ last.ret.app_id # None
              /\ PersistedNew(last.ret.app_id)
              /\ config_path \in last.wopen
              /\ Contains(fs[config_path].content.bytes,
                          Quoted(StrOfBig(last.ret.app_id)) \o <<"\n">>)
              /\ Contains(fs[config_path].content.bytes, Quoted(<<last.arg.version>>))
        /\ (~last.ret.ok /\ last.ret.app_id = None) =>
              /\ last.wopen = {}
              /\ Shortcuts(fs) = Shortcuts(pre)
              /\ MappingUntouched
        /\ (~last.ret.ok /\ last.ret.app_id # None) =>
              /\ PersistedNew(last.ret.app_id)
              /\ config_path \notin last.wopen
              /\ MappingContentKept

\* The shortcut was created, the mapping file has no section: (False, id)
C8_Witness ==
    /\ last.op = "create_shortcut_with_proton"
    /\ ~last.ret.ok
    /\ last.ret.app_id # None
    /\ PersistedNew(last.ret.app_id)
    /\ exists(fs, config_path)
    /\ exists(pre, shortcuts_vdf)

\* q is a backup of p: beside it, named as p with a suffix
BackupName(p, q) ==
    /\ q.dirs = p.dirs
    /\ Len(q.name) > Len(p.name)
    /\ SubSeq(q.name, 1, Len(p.name)) = p.name

HasBackup(p) ==
    \E q \in DOMAIN fs : BackupName(p, q) /\ fs[q].content = pre[p].content

\* The file the last operation is to write (for the two-step operation: the
\* store, then the mapping file) and what its backup copies did
Targets ==
    IF last.op = "save" THEN {[path |-> normpath(last.arg.path), io |-> last.arg.io]}
    ELSE IF last.op = "update_shortcuts" THEN {[path |-> last.arg.path, io |-> last.arg.io]}
    ELSE IF last.op \in {"create_shortcut", "remove_shortcut"}
        THEN {[path |-> shortcuts_vdf, io |-> last.arg.io]}
    ELSE IF last.op = "set_proton_version"
        THEN {[path |-> config_path, io |-> last.arg.io]}
    ELSE IF last.op = "create_shortcut_with_proton"
        THEN {[path |-> shortcuts_vdf, io |-> last.arg.ios[1]],
              [path |-> config_path, io |-> last.arg.ios[2]]}
    ELSE {}

\* C9: a file that existed and was opened for writing by the last operation
\* has a backup beside it holding its content from before the operation; when
\* the backup copy of an existing target fails, the target keeps its content
\* and the operation does not report success.
C9_BackupBeforeWrite ==
    /\ \A p \in last.wopen : exists(pre, p) => HasBackup(p)
    /\ \A t \in Targets :
          (exists(pre, t.path) /\ t.io.copies = 0) =>
              /\ t.path \notin last.wopen
              /\ fs[t.path] = pre[t.path]
              /\ last.ret.kind \in {"False", "pair", "ValueError"}
              /\ last.ret.kind = "pair" => ~last.ret.ok
    /\ \A t \in Targets :
          (/\ exists(pre, t.path)
           /\ exists(fs, t.path)
           /\ fs[t.path].content # pre[t.path].content) =>
              t.path \in last.wopen /\ HasBackup(t.path)

\* remove_shortcut rewrote a store that was there; its old content is in a
\* backup
C9_Witness ==
    /\ last.op = "remove_shortcut"
    /\ last.ret.kind = "True"
    /\ exists(pre, shortcuts_vdf)
    /\ fs[shortcuts_vdf].content # pre[shortcuts_vdf].content
    /\ HasBackup(shortcuts_vdf)

\* C20, as claimed: save to a path under a protected directory fails before
\* any bytes are written, whatever the file's name, shortcuts.vdf included.
C20_ProtectedDirRejectsAll ==
    (last.op = "save" /\ InCriticalDir(normpath(last.arg.path))) =>
        /\ last.ret.kind = "ValueError"
        /\ fs = pre
        /\ last.wopen = {}

\* C20: save to a path under a protected directory raises ValueError and
\* leaves the file system as it was when the file's name is not
\* shortcuts.vdf; for shortcuts.vdf the directory is not looked at: save does
\* not raise, and writes the file unless a backup or the write itself fails.
C20_ProtectedDirRejectsOthers ==
    (last.op = "save" /\ InCriticalDir(normpath(last.arg.path))) =>
        IF FileName(last.arg.path) # <<"shortcuts", ".vdf">>
        THEN /\ last.ret.kind = "ValueError"
             /\ fs = pre
             /\ last.wopen = {}
        ELSE /\ last.ret.kind \in {"True", "False"}
             /\ (last.arg.io.copies = 2 /\ last.arg.io.write) =>
                    /\ last.ret.kind = "True"
                    /\ last.wopen = {normpath(last.arg.path)}

\* save wrote shortcuts.vdf in the user's config directory, a protected one
C20_Witness ==
    /\ last.op = "save"
    /\ last.arg.path = shortcuts_vdf
    /\ "config" \in Range(shortcuts_vdf.dirs)
    /\ exists(pre, shortcuts_vdf)
    /\ last.ret.kind = "True"
    /\ fs[shortcuts_vdf].content # pre[shortcuts_vdf].content


\* The lines of the ModOrganizer.ini of f, as the bytes of the file have them
IniLines(f) == readlines(f[modlist_ini].content.bytes)

\* A line without the characters that end it
Body(line) == SelectSeq(line, LAMBDA t : t \notin {"\n", "\r"})

\* The last operation was a rewrite of ModOrganizer.ini that reported success
Rewrote ==
    /\ last.op \in {"edit_binary_working_paths", "update_executables"}
    /\ last.ret.kind = "True"
    /\ exists(pre, modlist_ini)

IniKey(line) == Split(Body(line), "=", 1)[1]

IniValue(line) == Split(Body(line), "=", 1)[2]

\* The lines "<k>\binary=<P>" of a loader with the mods anchor in P
ModsBinaryLines(lines) ==
    {i \in 1..Len(lines) :
        /\ "=" \in Range(lines[i])
        /\ Len(IniKey(lines[i])) = 3
        /\ SubSeq(IniKey(lines[i]), 2, 3) = <<"\\", "binary">>
        /\ IsLoaderLine(lines[i])
        /\ Contains(IniValue(lines[i]), <<"/", "mods", "/">>)}

\* The suffix of P that starts at "/mods"
FromMods(P) == SubSeq(P, Find(P, <<"/", "mods", "/">>, 0) + 1, Len(P))

Escaped(path) == Replace(path, "/", Doubled)

\* The lines "<k>\workingDirectory=..." of the index k of line i
PairedLines(lines, i) ==
    {j \in 1..Len(lines) :
        StartsWith(lines[j], <<IniKey(lines[i])[1], "\\", "workingDirectory", "=">>)}

\* C11 (as stated): after a rewrite of an install that is not on removable
\* media, every line "<k>\binary=<P>" with the mods anchor in P reads
\* "<k>\binary=Z:" followed by the install root and the suffix of P from
\* "/mods", every "/" written as two backslashes, the key as it was; the
\* paired "<k>\workingDirectory" line has the same root and the directory
\* portion of that suffix.
C11_BinaryLineRewritten ==
    (Rewrote /\ ~last.arg.a.modlist_sdcard) =>
        \A i \in ModsBinaryLines(IniLines(pre)) :
            LET was == IniLines(pre)[i]
                root == last.arg.a.modlist_dir
                is == IniLines(fs)
            IN /\ Len(is) = Len(IniLines(pre))
               /\ Body(is[i]) = IniKey(was) \o <<"=", "Z:">>
                                    \o Escaped(root \o FromMods(IniValue(was)))
               /\ \A j \in PairedLines(IniLines(pre), i) :
                      Body(is[j]) = <<IniKey(was)[1], "\\", "workingDirectory", "=", "Z:">>
                                        \o Escaped(root \o dirname(FromMods(IniValue(was))))

\* The lines "<k>\binary=..." of a text
BinaryLines(lines) ==
    {i \in 1..Len(lines) :
        /\ "=" \in Range(lines[i])
        /\ Len(IniKey(lines[i])) = 3
        /\ SubSeq(IniKey(lines[i]), 2, 3) = <<"\\", "binary">>}

\* Line i of the file does not read as it did before the last operation
\* (the characters that end it aside)
Rewritten(i) == Body(IniLines(fs)[i]) # Body(IniLines(pre)[i])

\* C12 (as stated): after a rewrite, for every index k the line
\* "<k>\binary" and the line "<k>\workingDirectory" are both rewritten or
\* both as they were, and when rewritten the working directory, drive letter
\* and root included, is where the binary's path begins.
C12_PairUpdatedTogether ==
    Rewrote =>
        /\ Len(IniLines(fs)) = Len(IniLines(pre))
        /\ \A i \in BinaryLines(IniLines(pre)) :
               \A j \in PairedLines(IniLines(pre), i) :
                   /\ Rewritten(i) <=> Rewritten(j)
                   /\ Rewritten(i) =>
                          StartsWith(Escaped(IniValue(IniLines(fs)[i])),
                                     Escaped(IniValue(IniLines(fs)[j])))

\* The lines a rewrite may touch: those that name a loader and the
\* "<k>\workingDirectory" lines of their indices
LoaderPairLines(lines) ==
    {i \in 1..Len(lines) : IsLoaderLine(lines[i])}
    \cup UNION {PairedLines(lines, i) :
                    i \in {l \in 1..Len(lines) : IsLoaderLine(lines[l]) /\ "=" \in Range(lines[l])}}

\* C13 (as stated): a rewrite that reports success opened the file for
\* writing once, the file has as many lines as before, and every line that
\* is neither a loader's line nor its paired working-directory line is, byte
\* for byte, the line that was there.
C13_OtherLinesKept ==
    Rewrote =>
        /\ last.wopen = {modlist_ini}
        /\ Len(IniLines(fs)) = Len(IniLines(pre))
        /\ \A i \in 1..Len(IniLines(pre)) :
               i \notin LoaderPairLines(IniLines(pre)) =>
                   IniLines(fs)[i] = IniLines(pre)[i]

\* The stripped form of a path as the rule gives it: what follows the volume
\* name of "/run/media/deck/<volume>/<rest>", "/" included; any other path
\* as it is
Stripped(path) ==
    IF /\ StartsWith(path, SdcardPrefix)
       /\ Len(path) >= 9
       /\ path[8] # "/"
       /\ path[9] = "/"
    THEN SubSeq(path, 9, Len(path))
    ELSE path

\* The loader lines update_executables places under the install root
InstallLoaderLines(lines) ==
    {i \in BinaryLines(lines) :
        /\ IsLoaderLine(lines[i])
        /\ path_kind(IniValue(lines[i])) \in {"mods", "stock"}}

\* C14 (as stated): _strip_sdcard_path gives the stripped form of every
\* path, and so does update_executables for an install on removable media:
\* with a file it can read and write it succeeds, and the value of every
\* loader line under the install root begins with "D:" and the stripped
\* form of the root.
C14_StrippedEverywhere ==
    /\ last.op = "_strip_sdcard_path" => last.ret.str = Stripped(last.arg.path)
    /\ ( /\ last.op = "update_executables"
         /\ last.arg.a.modlist_sdcard
         /\ last.arg.io.write
         /\ exists(pre, modlist_ini)
         /\ "\\xff" \notin Range(pre[modlist_ini].content.bytes)
         /\ InstallLoaderLines(IniLines(pre)) # {} )
       => /\ last.ret.kind = "True"
          /\ \A i \in InstallLoaderLines(IniLines(pre)) :
                 StartsWith(IniValue(IniLines(fs)[i]),
                            <<"D:">> \o Stripped(last.arg.a.modlist_dir))

\* The last operation was a search for the runtime `label`
Searched == last.op = "find_proton_binary"

Label == last.arg.proton_version

Roots == {steam_common_paths[r] : r \in 1..Len(steam_common_paths)}

RootIndex(b) == CHOOSE r \in 1..Len(steam_common_paths) : steam_common_paths[r] = b

Proton9 == <<"Proton", " ", "9">>

\* Root b holds the wine binary in a directory whose name begins "Proton 9"
HoldsProton9(b) ==
    \E n \in RuntimeNames : StartsWith(Tokens(n), Proton9) /\ exists(fs, wine_bin(b, n))

\* C15: a search for a label that begins "Proton 9" ("Proton 9.0" when only
\* "Proton 9.0 (Beta)" is there included) returns, without a warning, a
\* binary of the first root that holds one in a "Proton 9..." directory:
\* that of "Proton 9.0" if the root has it, else that of "Proton 9.0 (Beta)"
\* if the root has it, else that of another directory beginning "Proton 9".
C15_BothSpellingsBeforeGlob ==
    (Searched /\ StartsWith(Tokens(Label), Proton9) /\ \E b \in Roots : HoldsProton9(b)) =>
        LET first == Min({RootIndex(b) : b \in {c \in Roots : HoldsProton9(c)}})
            b == steam_common_paths[first]
        IN /\ last.ret.kind = "str"
           /\ ~last.ret.warning
           /\ exists(fs, last.ret.path)
           /\ IF exists(fs, wine_bin(b, "Proton 9.0"))
              THEN last.ret.path = wine_bin(b, "Proton 9.0")
              ELSE IF exists(fs, wine_bin(b, "Proton 9.0 (Beta)"))
              THEN last.ret.path = wine_bin(b, "Proton 9.0 (Beta)")
              ELSE \E n \in RuntimeNames :
                       /\ StartsWith(Tokens(n), Proton9)
                       /\ last.ret.path = wine_bin(b, n)

\* "Proton 9.0" was asked for where no root has a "Proton 9.0" directory,
\* the first root lists "Proton 9.2" before "Proton 9.0 (Beta)", both with
\* the binary, and the binary of "Proton 9.0 (Beta)" was returned.
C15_Witness ==
    /\ Searched
    /\ Label = "Proton 9.0"
    /\ \A b \in Roots : ~is_dir(fs, b \o <<"Proton 9.0">>)
    /\ exists(fs, wine_bin(steam_common_paths[1], "Proton 9.2"))
    /\ last.arg.order[1] = "Proton - Experimental"
    /\ last.ret = [kind |-> "str", warning |-> FALSE,
                   path |-> wine_bin(steam_common_paths[1], "Proton 9.0 (Beta)")]

\* A directory name matches a label: it has one of the label's spellings in
\* it, or both begin "Proton 9"
Matches(label, n) ==
    \/ \E k \in 1..3 : Contains(Tokens(n), version_patterns(label)[k])
    \/ StartsWith(strip(Tokens(label)), Proton9) /\ StartsWith(Tokens(n), Proton9)

\* Some root has a directory that matches the label
DirectoryMatches ==
    \E b \in Roots, n \in RuntimeNames : is_dir(fs, b \o <<n>>) /\ Matches(Label, n)

\* Some root has a directory that matches the label and holds the binary
BinaryMatches ==
    \E b \in Roots, n \in RuntimeNames : exists(fs, wine_bin(b, n)) /\ Matches(Label, n)

FallbackRoots == {b \in Roots : exists(fs, wine_bin(b, "Proton - Experimental"))}

\* The fallback's binary was returned with a warning, from the first root
\* that has it
FallbackReturned ==
    /\ last.ret.kind = "str"
    /\ last.ret.warning
    /\ last.ret.path = wine_bin(steam_common_paths[Min({RootIndex(b) : b \in FallbackRoots})],
                                "Proton - Experimental")

\* The binary of a directory that matches the label was returned, no warning
MatchReturned ==
    /\ last.ret.kind = "str"
    /\ ~last.ret.warning
    /\ \E b \in Roots, n \in RuntimeNames :
           /\ Matches(Label, n)
           /\ exists(fs, wine_bin(b, n))
           /\ last.ret.path = wine_bin(b, n)

\* C16 (as stated): the search returns None exactly when no directory of
\* any root matches the label and no root has the fallback; when no
\* directory matches and the fallback is there, the fallback is returned
\* with a warning; when a matching directory holds the binary, the binary
\* of a matching directory is returned.
C16_NotFoundIffNoDirectory ==
    Searched =>
        /\ last.ret.kind = "None" <=> (~DirectoryMatches /\ FallbackRoots = {})
        /\ (~DirectoryMatches /\ FallbackRoots # {}) => FallbackReturned
        /\ BinaryMatches => MatchReturned

\* C16 (amended): the search returns None exactly when no matching
\* directory of any root holds the binary and no root has the fallback's
\* binary; when no matching directory holds the binary and the fallback is
\* there, the fallback of the first root that has it is returned with a
\* warning; when a matching directory holds the binary, the binary of a
\* matching directory is returned without a warning.
C16_NotFoundIffNoBinary ==
    Searched =>
        /\ last.ret.kind = "None" <=> (~BinaryMatches /\ FallbackRoots = {})
        /\ (~BinaryMatches /\ FallbackRoots # {}) => FallbackReturned
        /\ BinaryMatches => MatchReturned

\* "Proton 9.0" was asked for where a "Proton 9.0 (Beta)" directory has no
\* binary, and the fallback was returned with a warning.
C16_Witness ==
    /\ Searched
    /\ Label = "Proton 9.0"
    /\ DirectoryMatches
    /\ ~BinaryMatches
    /\ FallbackReturned

\* C17: a call of cancel made when the process had already stopped sends
\* nothing (no terminate, no kill, no signal to the group, no pkill), raises
\* nothing and returns after its first wait, however many calls came before.
C17_StoppedCancelSendsNothing ==
    pm.stopped_at_call =>
        /\ pm.proc = "stopped"
        /\ pm.pc \in {"terminate", "wait_terminate", "idle"}
        /\ \A i \in 1..Len(pm.trace) :
               /\ pm.trace[i].sent = <<>>
               /\ ~pm.trace[i].raised
               /\ pm.trace[i].step \in {"terminate", "wait_terminate"}

\* The second call of cancel, made when the process had stopped, has returned
C17_Witness ==
    /\ pm.calls = 2
    /\ pm.stopped_at_call
    /\ pm.pc = "idle"
    /\ Len(pm.trace) = 2
    /\ pm.trace[2].stopped

\* The steps of the call that have the name `step`
StepsNamed(step) == {i \in 1..Len(pm.trace) : pm.trace[i].step = step}

\* Step i of the call comes where the escalation has it
InOrder(i) ==
    LET t == pm.trace
    IN CASE t[i].step = "terminate" -> i = 1
         [] t[i].step = "wait_terminate" -> i = 2 /\ ~t[1].raised
         [] t[i].step = "kill" ->
                i > 1 /\ \/ (t[i - 1].step = "terminate" /\ t[i - 1].raised)
                         \/ (t[i - 1].step = "wait_terminate" /\ ~t[i - 1].stopped)
         [] t[i].step = "wait_kill" ->
                i > 1 /\ t[i - 1].step = "kill" /\ ~t[i - 1].raised
         [] t[i].step = "killpg" ->
                i > 1 /\ \/ (t[i - 1].step = "kill" /\ t[i - 1].raised)
                         \/ (t[i - 1].step = "wait_kill" /\ ~t[i - 1].stopped)
         [] t[i].step = "pkill" -> i > 1 /\ t[i - 1].step \in {"killpg", "pkill"}

Ends == {i \in 1..Len(thread.read) : thread.read[i] \in {"\n", "\r"}}

\* The bytes between the delimiter before position i and position i
LineBefore(i) ==
    SubSeq(thread.read, Max({j \in Ends : j < i}, 0) + 1, i - 1)

\* The bytes after the last delimiter
Unterminated == SubSeq(thread.read, Max(Ends, 0) + 1, Len(thread.read))

\* How many delimiters there are up to position i
Nth(i) == Cardinality({j \in Ends : j <= i})

SignalOf(i) == IF thread.read[i] = "\r" THEN "progress_received" ELSE "output_received"

\* The emitted lines are the lines of the bytes read, in their order, each
\* with `text(line)` as its text, and the unterminated rest is in the buffer
\* until the thread finishes and a line of its own after
LinesDelivered(text(_)) ==
    /\ \A i \in Ends :
          /\ Nth(i) <= Len(thread.emitted)
          /\ thread.emitted[Nth(i)] = [signal |-> SignalOf(i), text |-> text(LineBefore(i))]
    /\ thread.state = "reading" =>
          /\ Len(thread.emitted) = Cardinality(Ends)
          /\ thread.buffer = Unterminated
    /\ thread.state = "finished" =>
          /\ thread.buffer = <<>>
          /\ IF Unterminated = <<>> THEN Len(thread.emitted) = Cardinality(Ends)
             ELSE /\ Len(thread.emitted) = Cardinality(Ends) + 1
                  /\ Last(thread.emitted) =
                         [signal |-> "output_received", text |-> text(Unterminated)]
          /\ ~thread.cancelled => thread.out = <<>>

EscapesRemoved(line) == ansi_escape_sub(line, 1)

Decoded(line) == decode_replace(ansi_escape_sub(line, 1))

\* C19 as stated: the thread delivers the output as lines split at every
\* newline and carriage return, in order, escape sequences removed, the
\* unterminated rest as a last line at the end of the stream, and every
\* other byte is in the lines as it was written.
C19_NoByteLost == LinesDelivered(EscapesRemoved)

\* C19, amended: the same, with each byte that is no utf-8 delivered as the
\* replacement character U+FFFD.
C19_LinesDelivered == LinesDelivered(Decoded)

\* The stream ended after a carriage return and an unterminated rest that
\* held an escape sequence
C19_Witness ==
    /\ thread.state = "finished"
    /\ ~thread.cancelled
    /\ Len(thread.emitted) = 2
    /\ thread.emitted[1].signal = "progress_received"
    /\ Unterminated # <<>>
    /\ EscapesRemoved(Unterminated) # Unterminated


\* ---- C21: which branch handles a loader line

\* The folder names the rewriters know, each with the branch meant for it
AnchorBranch(name) ==
    CASE name = "mods" -> "mods"
      [] name = "steamapps" -> "steamapps"
      [] name = "Stock Game" -> "stockgame"
      [] name = "Game Root" -> "gameroot"
      [] name = "STOCK GAME" -> "STOCKGAME"
      [] name = "Stock Folder" -> "stockfolder"
      [] name = "Skyrim Stock" -> "skyrimstock"
      [] name = "Stock Game Folder" -> "stockgamefolder"

AnchorNames ==
    {"mods", "steamapps", "Stock Game", "Game Root", "STOCK GAME", "Stock Folder",
     "Skyrim Stock", "Stock Game Folder"}

\* The branches meant for the folders a path goes through
BranchesMeant(path) ==
    {AnchorBranch(name) : name \in {n \in AnchorNames : n \in Range(path)}}
    \cup (IF Contains(path, RootSkyrim) THEN {"rootskyrimse"} ELSE {})

\* The lines of the file before the last operation, as that operation read
\* them
LinesRead ==
    IF last.op = "edit_binary_working_paths"
    THEN readlines(decode_ignore(pre[modlist_ini].content.bytes))
    ELSE readlines(universal_newlines(pre[modlist_ini].content.bytes))

\* The text in which the last operation looked for the folder names
Classified(line) ==
    IF last.op = "edit_binary_working_paths" THEN line ELSE IniValue(line)

RewriteRan ==
    /\ last.op \in {"edit_binary_working_paths", "update_executables"}
    /\ exists(pre, modlist_ini)

\* C21 (as stated): for every loader line whose path goes through exactly
\* one of the folders the rewriters know, the branch that handles the line is
\* the branch of that folder: "Stock Game Folder" is not handled as "Stock
\* Game", and a stock-game or steamapps path is not handled as a mods path
\* because "mods" occurs in another name of the line.
C21_MostSpecificAnchorHandles ==
    RewriteRan =>
        \A i \in 1..Len(LinesRead) :
            ( /\ IsLoaderLine(LinesRead[i])
              /\ "=" \in Range(LinesRead[i])
              /\ Cardinality(BranchesMeant(IniValue(LinesRead[i]))) = 1 )
            => handler(Classified(LinesRead[i])) \in BranchesMeant(IniValue(LinesRead[i]))

\* C21, the part that holds: a line whose path goes through mods is handled
\* by the mods branch, and a line with none of the names in it is handled by
\* no branch
C21_ModsFirst ==
    RewriteRan =>
        \A i \in 1..Len(LinesRead) :
            (IsLoaderLine(LinesRead[i]) /\ "=" \in Range(LinesRead[i])) =>
                /\ "mods" \in Range(IniValue(LinesRead[i]))
                       => handler(Classified(LinesRead[i])) = "mods"
                /\ handler(Classified(LinesRead[i])) # "stockgamefolder"


\* ---- C22: the drive letter of a rewritten value

\* The loader lines "<k>\binary=..." the last operation wrote anew
RewrittenLoaders ==
    {i \in BinaryLines(IniLines(pre)) : IsLoaderLine(IniLines(pre)[i]) /\ Rewritten(i)}

\* The root a line's value is placed under, and whether that root is on
\* removable media, by the flags of the call
RootOf(value, a) ==
    IF path_kind(value) = "steamapps"
    THEN [path |-> BeforeSteamapps(a.steam_library), card |-> a.basegame_sdcard]
    ELSE [path |-> a.modlist_dir, card |-> a.modlist_sdcard]

\* C22 (as stated): every value written by a rewrite begins with "D:" and
\* the stripped root when the root of its line is on removable media, and
\* with "Z:" and the root as given when it is not; the root is the install
\* directory for mods and stock-folder lines and the library root for
\* steamapps lines.
C22_DriveLetterByRoot ==
    (Rewrote /\ Len(IniLines(fs)) = Len(IniLines(pre))) =>
        \A i \in RewrittenLoaders :
            LET root == RootOf(IniValue(IniLines(pre)[i]), last.arg.a)
            IN StartsWith(IniValue(IniLines(fs)[i]),
                          IF root.card THEN <<"D:">> \o Stripped(root.path)
                          ELSE <<"Z:">> \o root.path)

\* C22, the part that holds: a mods or stock-folder line gets "D:" exactly
\* when the install is on removable media, a steamapps line when the install
\* or the library is
C22_DriveLetterByFlags ==
    (Rewrote /\ Len(IniLines(fs)) = Len(IniLines(pre))) =>
        \A i \in RewrittenLoaders :
            LET a == last.arg.a
                d == a.modlist_sdcard
                     \/ (path_kind(IniValue(IniLines(pre)[i])) = "steamapps" /\ a.basegame_sdcard)
            IN Head(IniValue(IniLines(fs)[i])) = (IF d THEN "D:" ELSE "Z:")


\* ---- C23: what edit_binary_working_paths reports

EditRan == last.op = "edit_binary_working_paths"

\* The loader lines with "=" of the file before the call, by whether a branch
\* handles them
LoadersHandled(known) ==
    {i \in 1..Len(IniLines(pre)) :
        /\ IsLoaderLine(IniLines(pre)[i])
        /\ "=" \in Range(IniLines(pre)[i])
        /\ (path_kind(IniLines(pre)[i]) # "none") = known}

\* C23 (as stated): edit_binary_working_paths fails when the file is absent;
\* a loader line that no branch handles is left as it was and does not make
\* the call fail; and when the call reports success every loader line that a
\* branch handles has been rewritten in the file.
C23_SuccessMeansRewritten ==
    EditRan =>
        /\ ~exists(pre, modlist_ini) => last.ret.kind = "False"
        /\ (exists(pre, modlist_ini) /\ last.ret.kind = "True") =>
              /\ Len(IniLines(fs)) = Len(IniLines(pre))
              /\ \A i \in LoadersHandled(FALSE) : ~Rewritten(i)
              /\ \A i \in LoadersHandled(TRUE) : Rewritten(i)

\* C23, the part that holds: the call fails when the file is absent, it
\* succeeds when the file is there, names a loader and can be written,
\* whether or not a branch handles the loader's line, and a line no branch
\* handles is left as it was
C23_AbsentFailsUnknownKept ==
    EditRan =>
        /\ ~exists(pre, modlist_ini) => last.ret.kind = "False"
        /\ ( /\ exists(pre, modlist_ini)
             /\ last.arg.io.write
             /\ \E i \in 1..Len(IniLines(pre)) : IsLoaderLine(IniLines(pre)[i]) )
           => last.ret.kind = "True"
        /\ (exists(pre, modlist_ini) /\ last.ret.kind = "True") =>
              /\ Len(IniLines(fs)) = Len(IniLines(pre))
              /\ \A i \in LoadersHandled(FALSE) : ~Rewritten(i)


\* ---- C24: the order in which directory names are matched

\* The stage at which a directory name matches a label: 1 the label itself,
\* 2 the label with its spaces replaced by "_" or removed, 3 the label or
\* one of these inside the name, or a "Proton 9" name for a "Proton 9"
\* label; 4 no match
Stage(label, n) ==
    IF Tokens(n) = Tokens(label) THEN 1
    ELSE IF Tokens(n) \in {version_patterns(label)[2], version_patterns(label)[3]} THEN 2
    ELSE IF Matches(label, n) THEN 3
    ELSE 4

\* The binary returned is that of a directory that matches at stage `stage`
\* or before
ReturnedByStage(stage) ==
    /\ last.ret.kind = "str"
    /\ ~last.ret.warning
    /\ \E b \in Roots, n \in RuntimeNames :
           last.ret.path = wine_bin(b, n) /\ Stage(Label, n) <= stage

\* C24 (as stated): when a directory that matches the label at some stage
\* holds the binary, in whichever root, the binary returned is not that of a
\* directory that matches only at a later stage.
C24_EarlierStageWins ==
    Searched =>
        \A b \in Roots, n \in RuntimeNames :
            (exists(fs, wine_bin(b, n)) /\ Stage(Label, n) <= 3)
                => ReturnedByStage(Stage(Label, n))

\* The first root with a directory that matches the label and holds the
\* binary
FirstRootWithMatch ==
    steam_common_paths[Min({RootIndex(b) : b \in {c \in Roots :
        \E n \in RuntimeNames : exists(fs, wine_bin(c, n)) /\ Matches(Label, n)}})]

\* C24, the part that holds: for a label that does not begin "Proton 9" the
\* search goes root by root; the binary returned is one of the first root
\* that holds the binary in a matching directory, and it is that of the
\* directory named as the label when that root has it.
C24_RootByRoot ==
    (Searched /\ BinaryMatches /\ ~StartsWith(strip(Tokens(Label)), Proton9)) =>
        /\ last.ret.kind = "str"
        /\ ~last.ret.warning
        /\ \E n \in RuntimeNames :
               /\ Matches(Label, n)
               /\ last.ret.path = wine_bin(FirstRootWithMatch, n)
        /\ (Label \in RuntimeNames /\ exists(fs, wine_bin(FirstRootWithMatch, Label)))
           => last.ret.path = wine_bin(FirstRootWithMatch, Label)


\* ---- C25: pkill as the last resort

\* The step taken is a pkill
PkillIssued ==
    /\ Len(pm'.trace) = Len(pm.trace) + 1
    /\ Last(pm'.trace).step = "pkill"

\* C25 (as stated): cancel issues the pkill command only while the process
\* is still running; once terminate, kill or the signal to the group has
\* stopped the process no pkill is issued.
C25_PkillOnlyWhileRunning == [][PkillIssued => pm.proc = "running"]_vars

\* C25, the part that holds: every pkill of a call comes after the call's
\* signal to the process group, which comes after the kill raised or its
\* wait timed out
C25_PkillAfterKillpg ==
    \A i \in StepsNamed("pkill") :
        /\ \E j \in StepsNamed("killpg") : j < i
        /\ \E j \in 1..(i - 1) :
               \/ (pm.trace[j].step = "kill" /\ pm.trace[j].raised)
               \/ (pm.trace[j].step = "wait_kill" /\ ~pm.trace[j].stopped)


\* ---- C26: the runtime of an application's prefix

\* The versions system.reg of a compatdata directory gives under the version
\* key (bytes that are no utf-8 aside)
RegistryVersions(dir) ==
    LET reg == Path(dir \o <<"pfx">>, <<"system", ".reg">>)
    IN IF ~exists(fs, reg) THEN {}
       ELSE {v \in Versions :
               \E i \in 1..Len(readlines(Remove(fs[reg].content.bytes, "\\xff"))) :
                   readlines(Remove(fs[reg].content.bytes, "\\xff"))[i]
                       = RegLine("SteamClientProtonVersion", v)}

\* The versions the first line of config_info gives
MarkerVersions(dir) ==
    LET marker == Path(dir, <<"config_info">>)
    IN IF ~exists(fs, marker) THEN {}
       ELSE {v \in MarkerVersionsKnown : StartsWith(fs[marker].content.bytes, v \o <<"\n">>)}

\* The label of a version: a community build's as it is, any other with
\* "Proton " before it (blanks around the version aside)
Labelled(v) ==
    IF "GE-" \in Range(v) THEN SelectSeq(v, LAMBDA t : t # " ")
    ELSE <<"Proton", " ">> \o SelectSeq(v, LAMBDA t : t # " ")

\* The label the two sources of a compatdata directory give: the registry's
\* when it has the key, the marker file's when not
SourceLabels(dir) ==
    IF RegistryVersions(dir) # {} THEN {Labelled(v) : v \in RegistryVersions(dir)}
    ELSE {Labelled(v) : v \in MarkerVersions(dir)}

\* The compatdata directories of an application, in the order of the bases
CompatDirs(appid) ==
    SelectSeq([b \in 1..Len(possible_compat_bases) |-> possible_compat_bases[b] \o <<appid>>],
              LAMBDA d : is_dir(fs, d))

NoPaths == last.ret.compatdata_path = <<>> /\ last.ret.proton_path = <<>> /\ last.ret.wine_bin = <<>>

AllPaths ==
    /\ Len(last.ret.compatdata_path) = 1
    /\ Len(last.ret.proton_path) = 1
    /\ Len(last.ret.wine_bin) = 1

\* C26: get_proton_version gives the label of the registry's version when
\* system.reg has the version key, the label of config_info's first line
\* when it has not, and "Unknown" when neither gives one; a community
\* build's version is its own label and any other has "Proton " put before
\* it. get_proton_paths returns three paths or three None: None when there
\* is no compatdata directory or no label; else the first compatdata
\* directory of the application, a wine binary that is there and the
\* directory two above it, that of the runtime named as the label when the
\* first root has it.
C26_AllOrNoneLabelFromRegistry ==
    /\ last.op = "get_proton_version" =>
           IF ~is_dir(fs, last.arg.compat_data_path) THEN last.ret.str = Unknown
           ELSE IF SourceLabels(last.arg.compat_data_path) = {} THEN last.ret.str = Unknown
           ELSE last.ret.str \in SourceLabels(last.arg.compat_data_path)
    /\ last.op = "get_proton_paths" =>
           /\ NoPaths \/ AllPaths
           /\ CompatDirs(last.arg.appid) = <<>> => NoPaths
           /\ (CompatDirs(last.arg.appid) # <<>>
                  /\ SourceLabels(CompatDirs(last.arg.appid)[1]) = {}) => NoPaths
           /\ AllPaths =>
                 /\ last.ret.compatdata_path[1] = CompatDirs(last.arg.appid)[1]
                 /\ exists(fs, last.ret.wine_bin[1])
                 /\ last.ret.wine_bin[1].name = <<"wine">>
                 /\ last.ret.proton_path[1] = Front(last.ret.wine_bin[1].dirs)
           /\ \A n \in RuntimeNames :
                 ( /\ CompatDirs(last.arg.appid) # <<>>
                   /\ SourceLabels(CompatDirs(last.arg.appid)[1]) = {Tokens(n)}
                   /\ exists(fs, wine_bin(steam_common_paths[1], n)) )
                 => /\ AllPaths
                    /\ last.ret.wine_bin[1] = wine_bin(steam_common_paths[1], n)

\* The paths were asked for where system.reg records 9.0 and config_info
\* 8.0, both runtimes are installed, and the binary of Proton 9.0 was
\* returned
C26_Witness ==
    /\ last.op = "get_proton_paths"
    /\ CompatDirs(last.arg.appid) # <<>>
    /\ RegistryVersions(CompatDirs(last.arg.appid)[1]) = {<<"9", ".0">>}
    /\ MarkerVersions(CompatDirs(last.arg.appid)[1]) = {<<"8", ".0">>}
    /\ exists(fs, wine_bin(steam_common_paths[1], "Proton 8.0"))
    /\ AllPaths
    /\ last.ret.wine_bin[1] = wine_bin(steam_common_paths[1], "Proton 9.0")


\* The signed identifiers of the entries of the store, slot by slot
StoredIds(f) == [i \in 1..Len(Shortcuts(f)) |-> Shortcuts(f)[i].val.appid]

\* C27: in every store reached by calls of create_shortcut the entries have
\* pairwise distinct signed identifiers (and so pairwise distinct unsigned
\* identifiers, the keys of the mapping): create_shortcut never gives a new
\* entry an identifier another entry of the store holds.
C27_IdsPairwiseDistinct ==
    \A i, j \in 1..Len(Shortcuts(fs)) :
        i # j => StoredIds(fs)[i] # StoredIds(fs)[j]


\* The places of thread.emitted that hold installation_finished
Finishes == {i \in 1..Len(thread.emitted) : thread.emitted[i].signal = "installation_finished"}

\* C28: however run and the calls of cancel from the window interleave
\* (cancel before the process is started, while run waits for a byte, after
\* the process has stopped), a run emits installation_finished exactly once:
\* never twice, not before the loop has ended, once when run has reached
\* its finally clause; and no output or progress line is emitted after it.
C28_FinishedOnceAndLast ==
    /\ Cardinality(Finishes) <= 1
    /\ thread.at \in {"finally", "done"} <=> Finishes # {}
    /\ Finishes # {} => Finishes = {Len(thread.emitted)}

\* A run that was cancelled while it waited for a byte, after it had emitted
\* a line, and has ended
C28_Witness ==
    /\ thread.at = "done"
    /\ thread.cancelled
    /\ Len(thread.emitted) = 2
    /\ thread.emitted[2] = installation_finished(FALSE, "Installation cancelled by user")
    /\ pm.calls >= 2


\* The samples the monitor has taken
Samples == monitor._metrics_history

\* The samples up to the i-th taken since the timer the i-th was judged by
\* was started
SinceTimerStarted(i) ==
    {j \in 1..i : Samples[i].timer # <<>> /\ Samples[j].timestamp >= Samples[i].timer[1]}

\* A sample is STALLED only after stall_duration of samples below the threshold
StalledOnlyAfterLowCpu ==
    \A i \in 1..Len(Samples) :
        Samples[i].state = "stalled" =>
            /\ Samples[i].timer # <<>>
            /\ Samples[i].timestamp - Samples[i].timer[1] >= stall_duration
            /\ \A j \in SinceTimerStarted(i) : Samples[j].cpu_percent < stall_threshold

\* A sample at or above the threshold leaves the timer unset
BusySampleResetsTimer ==
    \A i \in 1..Len(Samples) :
        Samples[i].cpu_percent >= stall_threshold => Samples[i].timer = <<>>

\* C29: the monitor reports STALLED for a sample only if every sample since
\* the low-CPU timer was started had CPU below stall_threshold and at least
\* stall_duration has elapsed since that start; any sample whose CPU is at
\* or above the threshold resets the timer, whatever its memory usage.
C29_StalledOnlyAfterLowCpu ==
    StalledOnlyAfterLowCpu /\ BusySampleResetsTimer

\* What the code keeps: among the samples whose memory is not above
\* memory_threshold, a STALLED one comes stall_duration or more after the
\* timer's start with CPU below the threshold ever since, and one at or
\* above the threshold resets the timer; a sample with memory above
\* memory_threshold is HIGH_MEMORY and leaves the timer as it was.
C29_SamplesOfHighMemoryAside ==
    \A i \in 1..Len(Samples) :
        LET timer_before == IF i = 1 THEN <<>> ELSE Samples[i - 1].timer
        IN IF Samples[i].memory_percent > memory_threshold
           THEN Samples[i].state = "high_memory" /\ Samples[i].timer = timer_before
           ELSE /\ Samples[i].cpu_percent >= stall_threshold => Samples[i].timer = <<>>
                /\ Samples[i].state = "stalled" =>
                      /\ Samples[i].timer # <<>>
                      /\ Samples[i].timestamp - Samples[i].timer[1] >= stall_duration
                      /\ \A j \in SinceTimerStarted(i) :
                            \/ Samples[j].cpu_percent < stall_threshold
                            \/ Samples[j].memory_percent > memory_threshold


\* Why set_proton_version gives up on the mapping file of f before it
\* writes: "none" when it does not
ErrorCause(f) ==
    IF ~exists(f, config_path) THEN "absent"
    ELSE LET c == f[config_path].content
             text == IF c.kind = "raw" THEN decode_ignore(c.bytes) ELSE <<>>
         IN IF Find(text, Quoted(<<"CompatToolMapping">>), 0) = -1 THEN "no section"
            ELSE IF Section(text).open = -1 THEN "no opening brace"
            ELSE IF Section(text).close = -1 THEN "unbalanced"
            ELSE "none"

\* A backup of the mapping file: config.vdf.backup_<seconds> beside it
IsBackup(p) ==
    /\ p.dirs = config_path.dirs
    /\ Len(p.name) > 3
    /\ SubSeq(p.name, 1, 3) = <<"config", ".vdf", ".backup_">>

\* C30: when set_proton_version returns False because the mapping file is
\* absent, the CompatToolMapping section is not found, its opening brace is
\* not found, or its braces are unbalanced, the mapping file is byte for
\* byte what it was before the call (absent if it was absent), every other
\* file is as it was, and the only file added, if any, is a backup.
C30_ErrorLeavesMappingFile ==
    (/\ last.op = "set_proton_version"
     /\ last.ret.kind = "False"
     /\ ErrorCause(pre) # "none") =>
        /\ exists(fs, config_path) <=> exists(pre, config_path)
        /\ \A p \in DOMAIN pre : exists(fs, p) /\ fs[p] = pre[p]
        /\ \A p \in DOMAIN fs \ DOMAIN pre : IsBackup(p)
        /\ config_path \notin last.wopen

\* set_proton_version gave up on a section that never closes, after it had
\* made the backup
C30_Witness ==
    /\ last.op = "set_proton_version"
    /\ last.ret.kind = "False"
    /\ ErrorCause(pre) = "unbalanced"
    /\ DOMAIN fs # DOMAIN pre
    /\ fs[config_path] = pre[config_path]

====
